---- MODULE Spec2Model ----
(***************************************************************************)
(* Model of trpc-typia-openapi: the request router / dispatcher            *)
(* (route-table construction, request matching, structured-input           *)
(* reconstruction, invocation and error mapping), the OpenAPI document     *)
(* generator and route listing, and the schema carriers of procedure.ts.   *)
(* Spec is the handler, SpecDoc the generator, SpecCarriers the carriers,  *)
(* SpecInFlight several calls of one handler, SpecCompleting the same      *)
(* under the fairness of completing factories and procedures.              *)
(*                                                                         *)
(* Strings are sequences of tokens.  Everything the code processes         *)
(* character by character (URLs, path templates, query strings) is a       *)
(* sequence of one-character tokens; opaque texts (error codes, messages,  *)
(* procedure names) are one-token sequences.                               *)
(***************************************************************************)
EXTENDS Integers, Sequences, FiniteSets, TLC

(***************************************************************************)
(* JavaScript values: a tag and the payload of that tag (a number, a       *)
(* string, the own properties of an object, the elements of an array).     *)
(***************************************************************************)
JSVal(t, n, s, o, a) == [t |-> t, n |-> n, s |-> s, o |-> o, a |-> a]

JSUndefined == JSVal("undefined", 0, <<>>, <<>>, <<>>)
JSNull      == JSVal("null", 0, <<>>, <<>>, <<>>)
JSNum(n)    == JSVal("number", n, <<>>, <<>>, <<>>)
JSStr(s)    == JSVal("string", 0, s, <<>>, <<>>)
JSObj(f)    == JSVal("object", 0, <<>>, f, <<>>)
JSArr(q)    == JSVal("array", 0, <<>>, <<>>, q)
JSFn(name)  == JSVal("function", 0, name, <<>>, <<>>)
JSBool(b)   == JSVal("boolean", IF b THEN 1 ELSE 0, <<>>, <<>>, <<>>)

EmptyObj == <<>>

\* typeof x === 'object' (arrays and null included)
TypeofObject(x) == x.t \in {"object", "array", "null"}

\* JavaScript truthiness of the values the model uses
Truthy(x) ==
  CASE x.t = "undefined" -> FALSE
    [] x.t = "null"      -> FALSE
    [] x.t = "number"    -> x.n /= 0
    [] x.t = "boolean"   -> x.n /= 0
    [] x.t = "string"    -> x.s /= <<>>
    [] OTHER             -> TRUE

\* a || b
OrElse(a, b) == IF Truthy(a) THEN a ELSE b

\* outcome of an evaluation: a value, or a thrown value
Ok(x)    == [t |-> "ok", v |-> x]
Threw(e) == [t |-> "throw", v |-> e]

MkError(message, code, cause) ==
  JSObj((<<"message">> :> message) @@ (<<"code">> :> code) @@ (<<"cause">> :> cause))

URIError  == MkError(JSStr(<<"URI malformed">>), JSUndefined, JSUndefined)
TypeError == MkError(JSStr(<<"Cannot read properties of null or undefined">>),
                     JSUndefined, JSUndefined)

\* x[key]: a property read.  Reading a property of null or undefined throws
\* a TypeError; a primitive has none of the properties read by the handler.
GetProp(x, key) ==
  CASE x.t \in {"undefined", "null"} -> Threw(TypeError)
    [] x.t \in {"object", "function"} ->
         Ok(IF key \in DOMAIN x.o THEN x.o[key] ELSE JSUndefined)
    [] OTHER -> Ok(JSUndefined)

(***************************************************************************)
(* String helpers: indexOf, split, endsWith, toUpperCase,                  *)
(* decodeURIComponent.                                                     *)
(***************************************************************************)
\* String.prototype.indexOf, 1-based; 0 stands for -1
IndexOf(s, c) ==
  IF \E i \in 1..Len(s) : s[i] = c
  THEN CHOOSE i \in 1..Len(s) : s[i] = c /\ \A j \in 1..(i - 1) : s[j] /= c
  ELSE 0

RECURSIVE Split(_, _)
Split(s, sep) ==
  LET i == IndexOf(s, sep)
  IN  IF i = 0 THEN <<s>>
      ELSE <<SubSeq(s, 1, i - 1)>> \o Split(SubSeq(s, i + 1, Len(s)), sep)

EndsWithSlash(s) == Len(s) > 0 /\ s[Len(s)] = "/"

\* String.prototype.toUpperCase on the method names the model uses
ToUpperCase(m) ==
  CASE m \in {"get", "Get", "GET"} -> "GET"
    [] m \in {"post", "POST"}      -> "POST"
    [] m \in {"put", "PUT"}        -> "PUT"
    [] m \in {"delete", "DELETE"}  -> "DELETE"
    [] OTHER -> m

\* Percent-escapes over the hex digits 4 and A.  %44 and %4A are the ASCII
\* letters D and J; %A4 and %AA are UTF-8 continuation bytes with no lead
\* byte, for which decodeURIComponent throws URIError.
HexDecode == (<<"4", "4">> :> "D") @@ (<<"4", "A">> :> "J")

RECURSIVE decodeURIComponent(_)
decodeURIComponent(s) ==
  IF s = <<>> THEN Ok(<<>>)
  ELSE IF s[1] /= "%"
  THEN LET r == decodeURIComponent(Tail(s))
       IN  IF r.t = "ok" THEN Ok(<<s[1]>> \o r.v) ELSE r
  ELSE IF Len(s) >= 3 /\ <<s[2], s[3]>> \in DOMAIN HexDecode
  THEN LET r == decodeURIComponent(SubSeq(s, 4, Len(s)))
       IN  IF r.t = "ok" THEN Ok(<<HexDecode[<<s[2], s[3]>>]>> \o r.v) ELSE r
  ELSE Threw(URIError)

(***************************************************************************)
(* compilePathPattern: /\{([^}]+)\}/g replaced by ([^/]+), anchored.       *)
(* The compiled regex is a sequence of elements: a literal character, the  *)
(* wildcard . (an unescaped dot of the template), or a capturing group.    *)
(***************************************************************************)
Lit(c)   == [k |-> "lit", c |-> c]
AnyChar  == [k |-> "any", c |-> "."]
Group    == [k |-> "group", c |-> "([^/]+)"]

\* the regex element a template character stands for in the RegExp source
RegexElem(c) == IF c = "." THEN AnyChar ELSE Lit(c)

\* position of the } closing a placeholder opened at p, or 0 when the
\* text at p is not a placeholder \{([^}]+)\}
PlaceholderEnd(path, p) ==
  IF path[p] = "{" /\ p + 1 <= Len(path) /\ path[p + 1] /= "}"
     /\ \E q \in (p + 2)..Len(path) : path[q] = "}"
  THEN CHOOSE q \in (p + 2)..Len(path) :
         path[q] = "}" /\ \A j \in (p + 2)..(q - 1) : path[j] /= "}"
  ELSE 0

RECURSIVE compileFrom(_, _)
compileFrom(path, p) ==
  IF p > Len(path) THEN [regex |-> <<>>, params |-> <<>>]
  ELSE LET q == PlaceholderEnd(path, p)
       IN  IF q /= 0
           THEN LET rest == compileFrom(path, q + 1)
                IN  [regex  |-> <<Group>> \o rest.regex,
                     params |-> <<SubSeq(path, p + 1, q - 1)>> \o rest.params]
           ELSE LET rest == compileFrom(path, p + 1)
                IN  [regex  |-> <<RegexElem(path[p])>> \o rest.regex,
                     params |-> rest.params]

\* a compilation that lists the parameter names right to left
compilePathPattern_reversed(path) ==
  LET c == compileFrom(path, 1)
  IN  [regex  |-> c.regex,
       params |-> [n \in 1..Len(c.params) |-> c.params[Len(c.params) + 1 - n]]]

compilePathPattern(path) == compileFrom(path, 1)

\* RegExp.prototype.exec of the anchored pattern: the captures of the
\* greedy, backtracking match, or a failure.
NoSlashRun(s, j, n) == \A i \in j..(j + n - 1) : s[i] /= "/"

RECURSIVE matchFrom(_, _, _, _)
matchFrom(regex, i, s, j) ==
  IF i > Len(regex)
  THEN IF j > Len(s) THEN Ok(<<>>) ELSE [t |-> "fail", v |-> <<>>]
  ELSE CASE regex[i].k = "lit" ->
              IF j <= Len(s) /\ s[j] = regex[i].c
              THEN matchFrom(regex, i + 1, s, j + 1)
              ELSE [t |-> "fail", v |-> <<>>]
         [] regex[i].k = "any" ->
              IF j <= Len(s)
              THEN matchFrom(regex, i + 1, s, j + 1)
              ELSE [t |-> "fail", v |-> <<>>]
         [] regex[i].k = "group" ->
              LET Ks == {n \in 1..(Len(s) - j + 1) :
                           NoSlashRun(s, j, n)
                           /\ matchFrom(regex, i + 1, s, j + n).t = "ok"}
              IN  IF Ks = {} THEN [t |-> "fail", v |-> <<>>]
                  ELSE LET n == CHOOSE m \in Ks : \A o \in Ks : o <= m
                       IN  Ok(<<SubSeq(s, j, j + n - 1)>>
                              \o matchFrom(regex, i + 1, s, j + n).v)

RegexExec(regex, s) == matchFrom(regex, 1, s, 1)

(***************************************************************************)
(* buildRouteTable: the flattened, compiled route table of a router tree.  *)
(* A tree node is a record {name, router, procedures, type, meta}; a       *)
(* procedure has no children and a router has no type or meta.             *)
(***************************************************************************)
NoMeta == [openapi |-> FALSE, method |-> "", path |-> <<>>, protect |-> FALSE]
OpenApi(method, path) ==
  [openapi |-> TRUE, method |-> method, path |-> path, protect |-> FALSE]
\* meta.openapi with protect: true
Protected(method, path) == [OpenApi(method, path) EXCEPT !.protect = TRUE]

\* a procedure with _def.inputs and _def.output
ProcIO(name, type, meta, inputs, output) ==
  [name |-> name, router |-> FALSE, procedures |-> <<>>, type |-> type,
   meta |-> meta, inputs |-> inputs, output |-> output]
\* a procedure without input or output parser
Proc(name, type, meta) == ProcIO(name, type, meta, <<>>, JSUndefined)
Router(name, procedures) ==
  [name |-> name, router |-> TRUE, procedures |-> procedures, type |-> "",
   meta |-> NoMeta, inputs |-> <<>>, output |-> JSUndefined]

isRouter(value) == value.router

\* method || (type === 'mutation' ? 'POST' : 'GET')
RouteMethod(proc) ==
  IF proc.meta.method /= "" THEN proc.meta.method
  ELSE IF proc.type = "mutation" THEN "POST" ELSE "GET"

RouteEntry(proc, fullPath) ==
  LET c == compilePathPattern(proc.meta.path)
  IN  [method        |-> RouteMethod(proc),
       regex         |-> c.regex,
       params        |-> c.params,
       procedurePath |-> fullPath,
       procedure     |-> proc]

FullPath(prefix, name) == IF prefix /= <<>> THEN prefix \o <<".">> \o name ELSE name

\* the rows contributed by the children entries[i..] of a router reached
\* under prefix, in Object.entries order
RECURSIVE collectRoutes(_, _, _)
collectRoutes(entries, i, prefix) ==
  IF i > Len(entries) THEN <<>>
  ELSE LET value    == entries[i]
           fullPath == FullPath(prefix, value.name)
           here     == IF isRouter(value)
                       THEN collectRoutes(value.procedures, 1, fullPath)
                       ELSE IF value.meta.openapi
                            THEN <<RouteEntry(value, fullPath)>>
                            ELSE <<>>
       IN  here \o collectRoutes(entries, i + 1, prefix)

buildRouteTable(router) == collectRoutes(router.procedures, 1, <<>>)

(***************************************************************************)
(* matchRoute: linear scan of the table.                                   *)
(***************************************************************************)
\* route.params.forEach((name, index) => params[name] = decodeURIComponent(match[index + 1]))
RECURSIVE bindParams(_, _, _, _)
bindParams(names, captures, i, acc) ==
  IF i > Len(names) THEN Ok(acc)
  ELSE LET d == decodeURIComponent(captures[i])
       IN  IF d.t = "throw" THEN d
           ELSE bindParams(names, captures, i + 1, (names[i] :> JSStr(d.v)) @@ acc)

RouteMatch(route, params) ==
  [t |-> "match",
   v |-> [procedurePath |-> route.procedurePath,
          procedure     |-> route.procedure,
          params        |-> params]]

\* a scan in which a later matching row replaces an earlier one
RECURSIVE matchFromRow_lastWins(_, _, _, _)
matchFromRow_lastWins(routes, i, upperMethod, pathname) ==
  IF i > Len(routes) THEN Ok(JSNull)
  ELSE LET later == matchFromRow_lastWins(routes, i + 1, upperMethod, pathname)
           m     == RegexExec(routes[i].regex, pathname)
       IN  IF later.t = "throw" \/ later.v /= JSNull THEN later
           ELSE IF routes[i].method = upperMethod /\ m.t = "ok"
           THEN LET b == bindParams(routes[i].params, m.v, 1, EmptyObj)
                IN  IF b.t = "throw" THEN b
                    ELSE Ok(RouteMatch(routes[i], b.v))
           ELSE later

RECURSIVE matchFromRow(_, _, _, _)
matchFromRow(routes, i, upperMethod, pathname) ==
  IF i > Len(routes) THEN Ok(JSNull)
  ELSE IF routes[i].method /= upperMethod
  THEN matchFromRow(routes, i + 1, upperMethod, pathname)
  ELSE LET m == RegexExec(routes[i].regex, pathname)
       IN  IF m.t = "ok"
           THEN LET b == bindParams(routes[i].params, m.v, 1, EmptyObj)
                IN  IF b.t = "throw" THEN b
                    ELSE Ok(RouteMatch(routes[i], b.v))
           ELSE matchFromRow(routes, i + 1, upperMethod, pathname)

matchRoute(routes, method, pathname) ==
  matchFromRow(routes, 1, ToUpperCase(method), pathname)

(***************************************************************************)
(* parseUrl and buildInput.                                                *)
(***************************************************************************)
RECURSIVE parsePairs(_, _, _)
parsePairs(pairs, i, query) ==
  IF i > Len(pairs) THEN Ok(query)
  ELSE LET parts == Split(pairs[i], "=")
           key   == parts[1]
       IN  IF key = <<>> THEN parsePairs(pairs, i + 1, query)
           ELSE LET dk == decodeURIComponent(key)
                    dv == IF Len(parts) >= 2 /\ parts[2] /= <<>>
                          THEN decodeURIComponent(parts[2])
                          ELSE Ok(<<>>)
                IN  IF dk.t = "throw" THEN dk
                    ELSE IF dv.t = "throw" THEN dv
                    ELSE parsePairs(pairs, i + 1, (dk.v :> JSStr(dv.v)) @@ query)

parseUrl(url) ==
  LET queryIndex == IndexOf(url, "?")
  IN  IF queryIndex = 0
      THEN Ok([pathname |-> url, query |-> EmptyObj])
      ELSE LET q == parsePairs(Split(SubSeq(url, queryIndex + 1, Len(url)), "&"),
                               1, EmptyObj)
           IN  IF q.t = "throw" THEN q
               ELSE Ok([pathname |-> SubSeq(url, 1, queryIndex - 1), query |-> q.v])

\* the own enumerable properties an object spread {...x} copies
IndexKey(i) == <<CASE i = 0 -> "0" [] i = 1 -> "1" [] i = 2 -> "2" [] OTHER -> "3">>

Spread(x) ==
  CASE x.t = "object" -> x.o
    [] x.t = "array"  -> [k \in {IndexKey(i - 1) : i \in 1..Len(x.a)} |->
                            x.a[CHOOSE i \in 1..Len(x.a) : IndexKey(i - 1) = k]]
    [] OTHER          -> EmptyObj

\* a merge in which the pre-parsed query object overrides the path parameters
buildInput_queryWins(req, routeParams) ==
  LET u == parseUrl(req.url)
  IN  IF u.t = "throw" THEN u
      ELSE IF ToUpperCase(req.method) = "GET"
      THEN Ok(JSObj(Spread(req.query) @@ routeParams @@ u.v.query))
      ELSE IF TypeofObject(req.body) /\ req.body /= JSNull
      THEN Ok(JSObj(routeParams @@ Spread(req.body)))
      ELSE IF DOMAIN routeParams /= {}
      THEN Ok(JSObj(routeParams))
      ELSE Ok(req.body)

\* a merge in which the body overrides the path parameters
buildInput_bodyWins(req, routeParams) ==
  LET u == parseUrl(req.url)
  IN  IF u.t = "throw" THEN u
      ELSE IF ToUpperCase(req.method) = "GET"
      THEN Ok(JSObj(routeParams @@ Spread(req.query) @@ u.v.query))
      ELSE IF TypeofObject(req.body) /\ req.body /= JSNull
      THEN Ok(JSObj(Spread(req.body) @@ routeParams))
      ELSE IF DOMAIN routeParams /= {}
      THEN Ok(JSObj(routeParams))
      ELSE Ok(req.body)

buildInput(req, routeParams) ==
  LET u == parseUrl(req.url)
  IN  IF u.t = "throw" THEN u
      ELSE IF ToUpperCase(req.method) = "GET"
      THEN Ok(JSObj(routeParams @@ Spread(req.query) @@ u.v.query))
      ELSE IF TypeofObject(req.body) /\ req.body /= JSNull
      THEN Ok(JSObj(routeParams @@ Spread(req.body)))
      ELSE IF DOMAIN routeParams /= {}
      THEN Ok(JSObj(routeParams))
      ELSE Ok(req.body)

(***************************************************************************)
(* errorToResponse.                                                        *)
(***************************************************************************)
JsonHeaders == (<<"Content-Type">> :> JSStr(<<"application/json">>))

statusMap ==
  (<<"PARSE_ERROR">> :> 400) @@ (<<"BAD_REQUEST">> :> 400) @@
  (<<"UNAUTHORIZED">> :> 401) @@ (<<"FORBIDDEN">> :> 403) @@
  (<<"NOT_FOUND">> :> 404) @@ (<<"METHOD_NOT_SUPPORTED">> :> 405) @@
  (<<"TIMEOUT">> :> 408) @@ (<<"CONFLICT">> :> 409) @@
  (<<"PRECONDITION_FAILED">> :> 412) @@ (<<"PAYLOAD_TOO_LARGE">> :> 413) @@
  (<<"UNPROCESSABLE_CONTENT">> :> 422) @@ (<<"TOO_MANY_REQUESTS">> :> 429) @@
  (<<"CLIENT_CLOSED_REQUEST">> :> 499) @@ (<<"INTERNAL_SERVER_ERROR">> :> 500) @@
  (<<"NOT_IMPLEMENTED">> :> 501)

\* statusMap is an object literal: a key it does not own is looked up on
\* Object.prototype, whose members are functions
ObjectPrototypeMembers ==
  {<<"constructor">>, <<"toString">>, <<"valueOf">>, <<"hasOwnProperty">>}

\* statusMap[code]
StatusMapLookup(code) ==
  IF code.t /= "string" THEN JSUndefined
  ELSE IF code.s \in DOMAIN statusMap THEN JSNum(statusMap[code.s])
  ELSE IF code.s \in ObjectPrototypeMembers THEN JSFn(code.s)
  ELSE JSUndefined

Response(status, body) == [status |-> status, headers |-> JsonHeaders, body |-> body]

\* a mapping that replaces a code missing from statusMap by the default code
errorToResponse_defaultsUnknown(error) ==
  LET c == GetProp(error, <<"code">>)
  IN  IF c.t = "throw" THEN c
      ELSE LET code == IF StatusMapLookup(c.v).t = "number"
                       THEN c.v ELSE JSStr(<<"INTERNAL_SERVER_ERROR">>)
           IN  Ok(Response(
                 OrElse(StatusMapLookup(code), JSNum(500)),
                 JSObj((<<"message">> :> GetProp(error, <<"message">>).v)
                       @@ (<<"code">> :> code)
                       @@ (<<"data">> :> OrElse(GetProp(error, <<"cause">>).v, JSNull)))))

errorToResponse(error) ==
  LET c == GetProp(error, <<"code">>)
  IN  IF c.t = "throw" THEN c
      ELSE LET code == OrElse(c.v, JSStr(<<"INTERNAL_SERVER_ERROR">>))
           IN  Ok(Response(
                 OrElse(StatusMapLookup(code), JSNum(500)),
                 JSObj((<<"message">> :> GetProp(error, <<"message">>).v)
                       @@ (<<"code">> :> code)
                       @@ (<<"data">> :> OrElse(GetProp(error, <<"cause">>).v, JSNull)))))

(***************************************************************************)
(* Insertion-ordered maps (object literals whose key order is observable,  *)
(* Map): a sequence of entries [k, v] with pairwise distinct keys.         *)
(***************************************************************************)
Entry(k, v) == [k |-> k, v |-> v]

OKeys(m)   == [i \in 1..Len(m) |-> m[i].k]
OHas(m, k) == \E i \in 1..Len(m) : m[i].k = k
OGet(m, k) == m[CHOOSE i \in 1..Len(m) : m[i].k = k].v

\* m[k] = v, Map.prototype.set: an existing key keeps its position
OSet(m, k, v) ==
  IF OHas(m, k)
  THEN [i \in 1..Len(m) |-> IF m[i].k = k THEN Entry(k, v) ELSE m[i]]
  ELSE Append(m, Entry(k, v))

\* Array.prototype.includes
Includes(q, x) == \E i \in 1..Len(q) : q[i] = x

\* Array.prototype.filter with the test "is not in names", applied to keys
RECURSIVE Without(_, _)
Without(q, names) ==
  IF q = <<>> THEN <<>>
  ELSE (IF Includes(names, Head(q)) THEN <<>> ELSE <<Head(q)>>)
       \o Without(Tail(q), names)

\* delete m[k] for every k of names
RECURSIVE DeleteKeys(_, _)
DeleteKeys(m, names) ==
  IF m = <<>> THEN <<>>
  ELSE (IF Includes(names, Head(m).k) THEN <<>> ELSE <<Head(m)>>)
       \o DeleteKeys(Tail(m), names)

\* an assignment that keeps the properties the target already has
RECURSIVE ObjectAssign_keepsFirst(_, _)
ObjectAssign_keepsFirst(target, source) ==
  IF source = <<>> THEN target
  ELSE ObjectAssign_keepsFirst(
         IF OHas(target, Head(source).k) THEN target
         ELSE OSet(target, Head(source).k, Head(source).v),
         Tail(source))

\* Object.assign(target, source)
RECURSIVE ObjectAssign(_, _)
ObjectAssign(target, source) ==
  IF source = <<>> THEN target
  ELSE ObjectAssign(OSet(target, Head(source).k, Head(source).v), Tail(source))

(***************************************************************************)
(* JSON schemas and Typia schema collections.  A schema is its type, its   *)
(* properties (an ordered map of schemas, when it has the key), its        *)
(* required array (when it has the key) and its $ref.  NoSchema and        *)
(* NoCollection stand for undefined.                                       *)
(***************************************************************************)
Schema(type, hasProperties, properties, hasRequired, required, ref) ==
  [type |-> type, hasProperties |-> hasProperties, properties |-> properties,
   hasRequired |-> hasRequired, required |-> required, ref |-> ref]

NoSchema == Schema("undefined", FALSE, <<>>, FALSE, <<>>, <<>>)
Leaf(type) == Schema(type, FALSE, <<>>, FALSE, <<>>, <<>>)
Ref(name)  == Schema("", FALSE, <<>>, FALSE, <<>>, name)
ObjectSchema(properties, required) ==
  Schema("object", TRUE, properties, TRUE, required, <<>>)

\* {schemas: [...], components: {schemas: {...}}}
Collection(schemas, components) ==
  [defined |-> TRUE, schemas |-> schemas, components |-> components]
NoCollection == [defined |-> FALSE, schemas |-> <<>>, components |-> <<>>]

(***************************************************************************)
(* procedure.ts: schema carriers.  A function object is a JavaScript value *)
(* with an identity (n) and own properties (o).                            *)
(***************************************************************************)
Fn(id) == JSVal("function", id, <<"assert">>, <<>>, <<>>)

\* a wrapper that returns a new function instead of the one it was given
withSchema_wrapped(assertFn, schema) ==
  [assertFn EXCEPT
     !.n = @ + 1,
     !.o = (<<"_typiaSchema">> :> schema) @@ (<<"_isTypiaParser">> :> JSBool(TRUE)) @@ @]

\* parser._typiaSchema = schema; parser._isTypiaParser = true; return parser
withSchema(assertFn, schema) ==
  [assertFn EXCEPT
     !.o = (<<"_typiaSchema">> :> schema) @@ (<<"_isTypiaParser">> :> JSBool(TRUE)) @@ @]

isTypiaParser(parser) ==
  /\ parser.t = "function"
  /\ <<"_isTypiaParser">> \in DOMAIN parser.o
  /\ parser.o[<<"_isTypiaParser">>] = JSBool(TRUE)

\* parser._typiaSchema, read after the test isTypiaParser(parser)
TypiaSchemaOf(parser) ==
  IF <<"_typiaSchema">> \in DOMAIN parser.o
  THEN parser.o[<<"_typiaSchema">>] ELSE NoCollection

\* schemas[0]
FirstSchema(collection) ==
  IF Len(collection.schemas) >= 1 THEN collection.schemas[1] ELSE NoSchema

getSchemaFromParser(parser) ==
  IF isTypiaParser(parser) /\ TypiaSchemaOf(parser).defined
  THEN FirstSchema(TypiaSchemaOf(parser))
  ELSE NoSchema

getFullSchemaFromParser(parser) ==
  IF isTypiaParser(parser) /\ TypiaSchemaOf(parser).defined
  THEN TypiaSchemaOf(parser)
  ELSE NoCollection

(***************************************************************************)
(* The document generator (generateOpenApiDocument and its helpers).       *)
(***************************************************************************)
\* String.prototype.toLowerCase on the method names the model uses
ToLowerCase(m) ==
  CASE m \in {"get", "Get", "GET"} -> "get"
    [] m \in {"post", "POST"}      -> "post"
    [] m \in {"put", "PUT"}        -> "put"
    [] m \in {"delete", "DELETE"}  -> "delete"
    [] OTHER -> m

\* path.replace(/\{([^}]+)\}/g, ...): every placeholder is pushed to params
\* and re-emitted as {param}
RECURSIVE parseFrom(_, _)
parseFrom(path, p) ==
  IF p > Len(path) THEN [params |-> <<>>, normalizedPath |-> <<>>]
  ELSE LET q == PlaceholderEnd(path, p)
       IN  IF q /= 0
           THEN LET param == SubSeq(path, p + 1, q - 1)
                    rest  == parseFrom(path, q + 1)
                IN  [params         |-> <<param>> \o rest.params,
                     normalizedPath |-> <<"{">> \o param \o <<"}">> \o rest.normalizedPath]
           ELSE LET rest == parseFrom(path, p + 1)
                IN  [params         |-> rest.params,
                     normalizedPath |-> <<path[p]>> \o rest.normalizedPath]

parsePath(path) == parseFrom(path, 1)

\* a resolution that treats every procedure without explicit method as GET
getHttpMethod_alwaysGet(procedureType, explicitMethod) ==
  IF explicitMethod /= "" THEN explicitMethod ELSE "GET"

getHttpMethod(procedureType, explicitMethod) ==
  IF explicitMethod /= "" THEN explicitMethod
  ELSE IF procedureType = "mutation" THEN "POST" ELSE "GET"

NoBody == [defined |-> FALSE, required |-> FALSE, contentType |-> "", schema |-> NoSchema]
RequestBody(contentType, schema) ==
  [defined |-> TRUE, required |-> TRUE, contentType |-> contentType, schema |-> schema]

\* schemaObj.required || []
RequiredOf(schemaObj) == IF schemaObj.hasRequired THEN schemaObj.required ELSE <<>>

\* a body builder that keeps the path parameters in the body
buildRequestBody_keepsPathParams(inputSchema, pathParams, contentType) ==
  IF inputSchema = NoSchema THEN NoBody
  ELSE IF inputSchema.type = "object" /\ inputSchema.hasProperties
  THEN IF Len(inputSchema.properties) = 0 THEN NoBody
       ELSE RequestBody(contentType,
              [inputSchema EXCEPT
                 !.hasRequired = Len(RequiredOf(inputSchema)) > 0,
                 !.required    = RequiredOf(inputSchema)])
  ELSE RequestBody(contentType, inputSchema)

buildRequestBody(inputSchema, pathParams, contentType) ==
  IF inputSchema = NoSchema THEN NoBody
  ELSE IF inputSchema.type = "object" /\ inputSchema.hasProperties
  THEN LET bodyProperties == DeleteKeys(inputSchema.properties, pathParams)
           bodyRequired   == Without(RequiredOf(inputSchema), pathParams)
       IN  IF Len(bodyProperties) = 0 THEN NoBody
           ELSE RequestBody(contentType,
                  [inputSchema EXCEPT
                     !.properties  = bodyProperties,
                     !.hasRequired = Len(bodyRequired) > 0,
                     !.required    = bodyRequired])
  ELSE RequestBody(contentType, inputSchema)

Parameter(name, in, required, schema) ==
  [name |-> name, in |-> in, required |-> required, schema |-> schema]

\* properties?.[param]
PropertySchema(inputSchema, param) ==
  IF inputSchema.hasProperties /\ OHas(inputSchema.properties, param)
  THEN OGet(inputSchema.properties, param)
  ELSE NoSchema

buildPathParameters(pathParams, inputSchema) ==
  [i \in 1..Len(pathParams) |->
     LET paramSchema == PropertySchema(inputSchema, pathParams[i])
     IN  Parameter(pathParams[i], "path", TRUE,
                   IF paramSchema /= NoSchema THEN paramSchema ELSE Leaf("string"))]

\* the loop over Object.entries(properties)
RECURSIVE queryParametersOf(_, _, _)
queryParametersOf(entries, required, pathParams) ==
  IF entries = <<>> THEN <<>>
  ELSE (IF Includes(pathParams, Head(entries).k) THEN <<>>
        ELSE <<Parameter(Head(entries).k, "query",
                         Includes(required, Head(entries).k), Head(entries).v)>>)
       \o queryParametersOf(Tail(entries), required, pathParams)

\* a builder that marks every query parameter as required
buildQueryParameters_allRequired(inputSchema, pathParams, method) ==
  IF method /= "GET" \/ inputSchema = NoSchema THEN <<>>
  ELSE IF inputSchema.type /= "object" \/ ~inputSchema.hasProperties THEN <<>>
  ELSE queryParametersOf(inputSchema.properties, OKeys(inputSchema.properties),
                         pathParams)

buildQueryParameters(inputSchema, pathParams, method) ==
  IF method /= "GET" \/ inputSchema = NoSchema THEN <<>>
  ELSE IF inputSchema.type /= "object" \/ ~inputSchema.hasProperties THEN <<>>
  ELSE queryParametersOf(inputSchema.properties, RequiredOf(inputSchema), pathParams)

\* the '200' response; the default error response is a constant
buildResponse(outputSchema, responseContentType) ==
  [hasContent  |-> outputSchema /= NoSchema,
   contentType |-> IF outputSchema /= NoSchema THEN responseContentType ELSE "",
   schema      |-> outputSchema]

\* the Map fullPath -> procedure of the children entries[i..] of a router
\* reached under prefix, added to procedures
RECURSIVE collectProceduresFrom(_, _, _, _)
collectProceduresFrom(entries, i, prefix, procedures) ==
  IF i > Len(entries) THEN procedures
  ELSE LET value    == entries[i]
           fullPath == FullPath(prefix, value.name)
           here     == IF isRouter(value)
                       THEN ObjectAssign(procedures,
                              collectProceduresFrom(value.procedures, 1, fullPath, <<>>))
                       ELSE OSet(procedures, fullPath, value)
       IN  collectProceduresFrom(entries, i + 1, prefix, here)

\* a flattening that lists the procedures last to first
collectProcedures_reversed(router) ==
  LET m == collectProceduresFrom(router.procedures, 1, <<>>, <<>>)
  IN  [i \in 1..Len(m) |-> m[Len(m) + 1 - i]]

collectProcedures(router) == collectProceduresFrom(router.procedures, 1, <<>>, <<>>)

\* def.inputs?.[0]
FirstInput(def) == IF Len(def.inputs) >= 1 THEN def.inputs[1] ELSE JSUndefined

\* the component schemas a parser contributes
ComponentsOf(parser) ==
  IF Truthy(parser) /\ isTypiaParser(parser)
  THEN getFullSchemaFromParser(parser).components
  ELSE <<>>

RECURSIVE collectComponentSchemasFrom(_, _, _)
collectComponentSchemasFrom(procedures, i, components) ==
  IF i > Len(procedures) THEN components
  ELSE LET def == procedures[i].v
       IN  collectComponentSchemasFrom(procedures, i + 1,
             ObjectAssign(ObjectAssign(components, ComponentsOf(FirstInput(def))),
                          ComponentsOf(def.output)))

collectComponentSchemas(procedures) == collectComponentSchemasFrom(procedures, 1, <<>>)

\* options.security: undefined, or an array of requirement names
NoSecurity == [defined |-> FALSE, value |-> <<>>]
Security(requirements) == [defined |-> TRUE, value |-> requirements]

Options(title, security, securitySchemes) ==
  [title |-> title, security |-> security, securitySchemes |-> securitySchemes]

\* procedurePath.replace(/\./g, '_')
OperationId(procedurePath) ==
  [i \in 1..Len(procedurePath) |-> IF procedurePath[i] = "." THEN "_" ELSE procedurePath[i]]

\* the operation object of one annotated procedure
Operation(procedurePath, def, security) ==
  LET parsed       == parsePath(def.meta.path)
      httpMethod   == getHttpMethod(def.type, def.meta.method)
      inputParser  == FirstInput(def)
      outputParser == def.output
      inputSchema  == IF Truthy(inputParser) THEN getSchemaFromParser(inputParser)
                      ELSE NoSchema
      outputSchema == IF Truthy(outputParser) THEN getSchemaFromParser(outputParser)
                      ELSE NoSchema
      parameters   == buildPathParameters(parsed.params, inputSchema)
                      \o buildQueryParameters(inputSchema, parsed.params, httpMethod)
      requestBody  == IF httpMethod /= "GET"
                      THEN buildRequestBody(inputSchema, parsed.params, "application/json")
                      ELSE NoBody
  IN  [operationId   |-> OperationId(procedurePath),
       hasParameters |-> Len(parameters) /= 0,
       parameters    |-> parameters,
       responses     |-> buildResponse(outputSchema, "application/json"),
       requestBody   |-> requestBody,
       security      |-> IF def.meta.protect /\ security.defined
                         THEN security ELSE NoSecurity]

\* a loop that starts a new path item for every procedure
RECURSIVE pathsFrom_separateItems(_, _, _, _)
pathsFrom_separateItems(procedures, i, security, paths) ==
  IF i > Len(procedures) THEN paths
  ELSE LET def == procedures[i].v
       IN  IF ~def.meta.openapi
           THEN pathsFrom_separateItems(procedures, i + 1, security, paths)
           ELSE pathsFrom_separateItems(procedures, i + 1, security,
                  OSet(paths, parsePath(def.meta.path).normalizedPath,
                       <<Entry(ToLowerCase(getHttpMethod(def.type, def.meta.method)),
                               Operation(procedures[i].k, def, security))>>))

\* the loop over the collected procedures: paths[normalizedPath][method]
RECURSIVE pathsFrom(_, _, _, _)
pathsFrom(procedures, i, security, paths) ==
  IF i > Len(procedures) THEN paths
  ELSE LET def == procedures[i].v
       IN  IF ~def.meta.openapi
           THEN pathsFrom(procedures, i + 1, security, paths)
           ELSE LET normalizedPath == parsePath(def.meta.path).normalizedPath
                    httpMethod     == getHttpMethod(def.type, def.meta.method)
                    item           == IF OHas(paths, normalizedPath)
                                      THEN OGet(paths, normalizedPath) ELSE <<>>
                IN  pathsFrom(procedures, i + 1, security,
                      OSet(paths, normalizedPath,
                           OSet(item, ToLowerCase(httpMethod),
                                Operation(procedures[i].k, def, security))))

NoComponents ==
  [defined |-> FALSE, hasSchemas |-> FALSE, schemas |-> <<>>, securitySchemes |-> FALSE]

\* a generator that gives every operation the document's security
generateOpenApiDocument_allProtected(router, options) ==
  LET procedures       == collectProcedures(router)
      componentSchemas == collectComponentSchemas(procedures)
      exposed          == [i \in 1..Len(procedures) |->
                             Entry(procedures[i].k,
                                   [procedures[i].v EXCEPT !.meta.protect = TRUE])]
  IN  [openapi    |-> "3.1.0",
       info       |-> [title |-> options.title],
       paths      |-> pathsFrom(exposed, 1, options.security, <<>>),
       components |->
         IF Len(componentSchemas) > 0 \/ options.securitySchemes
         THEN [defined         |-> TRUE,
               hasSchemas      |-> Len(componentSchemas) > 0,
               schemas         |-> componentSchemas,
               securitySchemes |-> options.securitySchemes]
         ELSE NoComponents,
       security   |-> options.security]

generateOpenApiDocument(router, options) ==
  LET procedures       == collectProcedures(router)
      componentSchemas == collectComponentSchemas(procedures)
  IN  [openapi    |-> "3.1.0",
       info       |-> [title |-> options.title],
       paths      |-> pathsFrom(procedures, 1, options.security, <<>>),
       components |->
         IF Len(componentSchemas) > 0 \/ options.securitySchemes
         THEN [defined         |-> TRUE,
               hasSchemas      |-> Len(componentSchemas) > 0,
               schemas         |-> componentSchemas,
               securitySchemes |-> options.securitySchemes]
         ELSE NoComponents,
       security   |-> options.security]

(***************************************************************************)
(* getOpenApiRoutes: the route table, its regexes printed back as paths.   *)
(***************************************************************************)
\* RegExp.prototype.source of one element; a / of the pattern is escaped
ElemSource(e) ==
  CASE e.k = "group" -> <<"(", "[", "^", "/", "]", "+", ")">>
    [] e.c = "/"     -> <<"\\", "/">>
    [] OTHER         -> <<e.c>>

RECURSIVE ElemsSource(_)
ElemsSource(regex) ==
  IF regex = <<>> THEN <<>> ELSE ElemSource(Head(regex)) \o ElemsSource(Tail(regex))

\* regex.source of new RegExp(`^${pattern}$`)
RegexSource(regex) == <<"^">> \o ElemsSource(regex) \o <<"$">>

StartsWith(s, pat) == Len(s) >= Len(pat) /\ SubSeq(s, 1, Len(pat)) = pat

\* String.prototype.replace with a global pattern matching the literal pat
RECURSIVE ReplaceAll(_, _, _)
ReplaceAll(s, pat, by) ==
  IF s = <<>> THEN <<>>
  ELSE IF StartsWith(s, pat)
  THEN by \o ReplaceAll(SubSeq(s, Len(pat) + 1, Len(s)), pat, by)
  ELSE <<Head(s)>> \o ReplaceAll(Tail(s), pat, by)

\* source.replace(/\\/g, '').replace(/\(\[\^\/\]\+\)/g, '{param}')
PrintedPath(regex) ==
  ReplaceAll(ReplaceAll(RegexSource(regex), <<"\\">>, <<>>),
             <<"(", "[", "^", "/", "]", "+", ")">>, <<"{", "param", "}">>)

RouteInfo(method, path, procedurePath) ==
  [method |-> method, path |-> path, procedurePath |-> procedurePath]

getOpenApiRoutes(router) ==
  LET table == buildRouteTable(router)
  IN  [i \in 1..Len(table) |->
         RouteInfo(table[i].method, PrintedPath(table[i].regex), table[i].procedurePath)]

(***************************************************************************)
(* Inputs: routers, requests and the outcomes of the external callbacks.   *)
(***************************************************************************)
MaxArrayLen == 2

\* path templates
T_root  == <<"/">>
T_u     == <<"/", "u">>
T_u_i   == <<"/", "u", "/", "{", "i", "}">>
T_u_j   == <<"/", "u", "/", "{", "j", "}">>
T_u_me  == <<"/", "u", "/", "m", "e">>
T_i     == <<"/", "i">>
T_t_sl  == <<"/", "t", "/">>
T_a_x_y == <<"/", "a", "/", "{", "x", "}", "/", "b", "/", "{", "y", "}">>
T_f_j   == <<"/", "f", ".", "j">>

\* a typical router: a nested sub-router, inferred and explicit methods, an
\* RPC-only procedure and a root route
RouterA ==
  Router(<<>>, <<
    Router(<<"users">>, <<
      Proc(<<"list">>, "query", OpenApi("", T_u)),
      Proc(<<"get">>, "query", OpenApi("GET", T_u_i)),
      Proc(<<"update">>, "mutation", OpenApi("PUT", T_u_i)),
      Proc(<<"remove">>, "mutation", OpenApi("DELETE", T_u_i)) >>),
    Proc(<<"ping">>, "query", NoMeta),
    Proc(<<"createItem">>, "mutation", OpenApi("", T_i)),
    Proc(<<"home">>, "query", OpenApi("GET", T_root)) >>)

\* a router with ambiguous rows, a template ending in a slash and a
\* two-parameter template
RouterB ==
  Router(<<>>, <<
    Proc(<<"first">>, "query", OpenApi("GET", T_u_i)),
    Proc(<<"second">>, "query", OpenApi("GET", T_u_j)),
    Proc(<<"me">>, "query", OpenApi("GET", T_u_me)),
    Proc(<<"slashed">>, "query", OpenApi("GET", T_t_sl)),
    Router(<<"deep">>, <<
      Router(<<"er">>, <<
        Proc(<<"pair">>, "mutation", OpenApi("", T_a_x_y)),
        Proc(<<"watch">>, "subscription", OpenApi("", T_i)) >>) >>),
    Proc(<<"postUser">>, "mutation", OpenApi("POST", T_u_i)),
    Proc(<<"postItem">>, "mutation", OpenApi("POST", T_i)),
    Proc(<<"file">>, "query", OpenApi("GET", T_f_j)) >>)

Routers == {RouterA, RouterB}

Methods == {"GET", "get", "POST", "PUT", "DELETE"}

Urls == {
  <<"/">>,
  <<"/", "/">>,
  <<"/", "u">>,
  <<"/", "u", "/">>,
  <<"/", "u", "/", "/">>,
  <<"/", "u", "/", "4">>,
  <<"/", "u", "/", "4", "/">>,
  <<"/", "u", "/", "m", "e">>,
  <<"/", "u", "/", "%", "4", "4">>,
  <<"/", "u", "/", "%", "A", "4">>,
  <<"/", "u", "/", "%">>,
  <<"/", "u", "/", "4", "?", "v", "=", "t">>,
  <<"/", "u", "/", "4", "/", "?", "i", "=", "9", "&", "v", "=", "t", "&", "v", "=", "%", "4", "A">>,
  <<"/", "u", "?", "v", "=", "%">>,
  <<"/", "x">>,
  <<"/", "x", "?", "%", "A", "A">>,
  <<"/", "t">>,
  <<"/", "t", "/">>,
  <<"/", "t", "/", "/">>,
  <<"/", "i">>,
  <<"/", "i", "/", "?", "n", "=", "q">>,
  <<"/", "a", "/", "1", "/", "b", "/", "2">>,
  <<"/", "f", ".", "j">>,
  <<"/", "f", "x", "j">> }

ArrayElems == {JSNum(7)}
Arrays == UNION {[1..n -> ArrayElems] : n \in 0..MaxArrayLen}

Bodies ==
  {JSUndefined, JSNull, JSNum(5), JSStr(<<"s">>),
   JSObj(<<"name">> :> JSStr(<<"x">>)),
   JSObj((<<"i">> :> JSStr(<<"b">>)) @@ (<<"name">> :> JSStr(<<"x">>)))}
  \cup {JSArr(a) : a \in Arrays}

Queries ==
  {JSUndefined,
   JSObj((<<"v">> :> JSStr(<<"p">>)) @@ (<<"i">> :> JSStr(<<"p">>)) @@ (<<"w">> :> JSUndefined))}

Request(method, url, body, query) ==
  [method |-> method, url |-> url, body |-> body, query |-> query]

Requests ==
  {Request(m, u, JSUndefined, q) :
     m \in {n \in Methods : ToUpperCase(n) = "GET"}, u \in Urls, q \in Queries}
  \cup {Request(m, u, b, JSUndefined) :
     m \in {n \in Methods : ToUpperCase(n) /= "GET"}, u \in Urls, b \in Bodies}
  \cup {Request("POST", u, b, q) : u \in {<<"/", "i">>, <<"/", "u", "/", "4">>},
                                   b \in Bodies, q \in Queries}

Contexts == {JSObj(<<"user">> :> JSStr(<<"alice">>)), JSUndefined}

Results == {JSObj(<<"id">> :> JSNum(1)), JSNull}

Cause == JSObj(<<"detail">> :> JSStr(<<"why">>))

ThrownValues ==
  {MkError(JSStr(<<"failed">>), JSStr(c), JSUndefined) : c \in DOMAIN statusMap}
  \cup {MkError(JSStr(<<"failed">>), JSStr(<<"CONFLICT">>), Cause),
        MkError(JSStr(<<"failed">>), JSStr(<<"ENOENT">>), Cause),
        MkError(JSStr(<<"failed">>), JSStr(<<"constructor">>), JSUndefined),
        MkError(JSStr(<<"failed">>), JSStr(<<>>), JSUndefined),
        MkError(JSStr(<<"failed">>), JSUndefined, JSUndefined),
        MkError(JSStr(<<"failed">>), JSUndefined, JSNum(0)),
        JSStr(<<"boom">>), JSNum(0), JSNull, JSUndefined}

\* input and output schemas
S_xyz ==
  ObjectSchema(<<Entry(<<"x">>, Leaf("string")), Entry(<<"y">>, Leaf("number")),
                 Entry(<<"z">>, Leaf("boolean"))>>, << <<"z">> >>)
S_in ==
  ObjectSchema(<<Entry(<<"i">>, Leaf("string")), Entry(<<"n">>, Leaf("string"))>>,
               << <<"i">>, <<"n">> >>)
S_i    == ObjectSchema(<<Entry(<<"i">>, Leaf("number"))>>, << <<"i">> >>)
S_n    == Schema("object", TRUE, <<Entry(<<"n">>, Leaf("string"))>>, FALSE, <<>>, <<>>)
S_user == Ref(<<"User">>)

\* schema collections as typia.json.schemas produces them
Coll(schema) == Collection(<<schema>>, <<>>)
C_user   == Collection(<<S_user>>, <<Entry(<<"User">>, S_in)>>)
C_secret == Collection(<<S_n>>, <<Entry(<<"Secret">>, Leaf("string"))>>)
C_user2  ==
  Collection(<<S_user>>, <<Entry(<<"User">>, S_i), Entry(<<"Id">>, Leaf("string"))>>)
C_none   == Collection(<<>>, <<>>)
C_two    == Collection(<<S_i, S_n>>, <<>>)

MaxProcedures == 2

\* the procedures and the sub-router the generated documents are made of
Pool ==
  { ProcIO(<<"a">>, "query", Protected("", T_a_x_y),
           <<withSchema(Fn(1), Coll(S_xyz))>>, JSUndefined),
    ProcIO(<<"b">>, "mutation", OpenApi("PUT", T_u_i),
           <<withSchema(Fn(2), Coll(S_in))>>, withSchema(Fn(3), C_user)),
    ProcIO(<<"c">>, "mutation", Protected("", T_u_i),
           <<withSchema(Fn(4), Coll(S_i))>>, JSUndefined),
    ProcIO(<<"d">>, "query", NoMeta,
           <<withSchema(Fn(5), C_secret)>>, JSUndefined),
    ProcIO(<<"e">>, "subscription", OpenApi("", T_i), <<Fn(6)>>, JSUndefined),
    ProcIO(<<"f">>, "query", Protected("POST", T_i),
           <<withSchema(Fn(7), Coll(S_n))>>, JSUndefined),
    Proc(<<"g">>, "query", OpenApi("GET", T_u_i)),
    ProcIO(<<"h">>, "mutation", OpenApi("GET", T_u),
           <<withSchema(Fn(8), Coll(S_n))>>, JSUndefined),
    ProcIO(<<"k">>, "mutation", OpenApi("", T_i),
           <<withSchema(Fn(9), C_user)>>, JSUndefined),
    ProcIO(<<"m">>, "mutation", OpenApi("", T_u),
           <<withSchema(Fn(11), C_user)>>, withSchema(Fn(12), C_user2)),
    Proc(<<"n", "_", "a">>, "query", OpenApi("GET", T_root)),
    Router(<<"n">>, <<
      ProcIO(<<"a">>, "query", OpenApi("GET", T_u_me),
             <<withSchema(Fn(10), Coll(S_xyz))>>, JSUndefined),
      Proc(<<"p">>, "query", NoMeta) >>) }

\* the routers of at most MaxProcedures distinct entries of the pool
DocRouters ==
  {Router(<<>>, q) :
     q \in {e \in UNION {[1..n -> Pool] : n \in 0..MaxProcedures} :
              \A i, j \in 1..Len(e) : i /= j => e[i] /= e[j]}}
  \cup Routers

OptionsSet ==
  {Options(<<"API">>, sec, schemes) :
     sec \in {NoSecurity, Security(<<>>), Security(<< <<"bearerAuth">> >>)},
     schemes \in BOOLEAN}

NumFunctions == 2

FnIds == 1..NumFunctions

\* the second argument of withSchema: a collection, or undefined
SchemaArgs == {NoCollection, C_none, Coll(S_xyz), C_user, C_two}

\* values that are not functions, or functions without a true marker
OtherValues ==
  {JSUndefined, JSNull, JSNum(1), JSStr(<<"s">>), JSBool(TRUE),
   JSObj(<<>>),
   JSVal("object", 0, <<>>,
         (<<"_typiaSchema">> :> C_user) @@ (<<"_isTypiaParser">> :> JSBool(TRUE)), <<>>),
   [Fn(7) EXCEPT !.o = (<<"_typiaSchema">> :> C_user)],
   [Fn(8) EXCEPT !.o = (<<"_typiaSchema">> :> C_user)
                        @@ (<<"_isTypiaParser">> :> JSNum(1))],
   [Fn(9) EXCEPT !.o = (<<"_typiaSchema">> :> C_user)
                        @@ (<<"_isTypiaParser">> :> JSBool(FALSE))]}

HookError == MkError(JSStr(<<"hook failed">>), JSUndefined, JSUndefined)

\* what a call of the configured onError hook does
HookOutcomes == {Ok(JSUndefined), Threw(HookError)}

(***************************************************************************)
(* The handler returned by createOpenApiHandler, one slot per request in   *)
(* flight.  A step runs the handler from one suspension point to the next. *)
(***************************************************************************)
VARIABLES router, routes, onError, pc, req, match, ctx, outcome, trace,
          options, document, listed, heap, returned

\* the state of the document generator and of the schema carriers
genVars == <<options, document, listed, heap, returned>>

vars == <<router, routes, onError, pc, req, match, ctx, outcome, trace, genVars>>

\* the requests in flight: one slot per call of the handler
Slots == DOMAIN pc

NoRequest == Request("", <<>>, JSUndefined, JSUndefined)
Pending   == [t |-> "pending", v |-> JSUndefined]
Event(name, args) == [t |-> name, v |-> args]

\* the calls of the handler that are still to come
HandlerStart(slots) ==
  /\ pc = [i \in slots |-> "idle"]
  /\ req = [i \in slots |-> NoRequest]
  /\ match = [i \in slots |-> JSNull]
  /\ ctx = [i \in slots |-> JSUndefined]
  /\ outcome = [i \in slots |-> Pending]
  /\ trace = [i \in slots |-> <<>>]

\* no request received yet
HandlerIdle == HandlerStart({1})

\* no document generated, no route listed
GeneratorIdle == document = <<>> /\ listed = <<>>

\* the functions withSchema is applied to, as created
CarriersIdle == heap = [f \in FnIds |-> Fn(f)] /\ returned = <<>>

Init ==
  /\ router \in Routers
  /\ routes = buildRouteTable(router)
  /\ onError \in BOOLEAN
  /\ HandlerIdle
  /\ options = Options(<<"API">>, NoSecurity, FALSE)
  /\ GeneratorIdle
  /\ CarriersIdle

\* pathname with one trailing slash removed, unless it is the root
Normalize(pathname) ==
  IF Len(pathname) > 1 /\ EndsWithSlash(pathname)
  THEN SubSeq(pathname, 1, Len(pathname) - 1)
  ELSE pathname

NotFound(r, pathname) ==
  Response(JSNum(404),
           JSObj((<<"message">> :>
                    JSStr(<<"No route found for ", r.method, " ">> \o pathname))
                 @@ (<<"code">> :> JSStr(<<"NOT_FOUND">>))))

\* the synchronous prefix of the handler: parse, normalise, match
Route(table, r) ==
  LET u == parseUrl(r.url)
  IN  IF u.t = "throw" THEN u
      ELSE matchRoute(table, r.method, Normalize(u.v.pathname))

Settle(i, o) ==
  /\ outcome' = [outcome EXCEPT ![i] = o]
  /\ pc' = [pc EXCEPT ![i] = IF o.t = "ok" THEN "resolved" ELSE "rejected"]

\* the handler is called with request r: everything up to the first await
Receive(i, r) ==
  /\ pc[i] = "idle"
  /\ req' = [req EXCEPT ![i] = r]
  /\ LET m == Route(routes, r)
     IN  IF m.t = "throw"
         THEN Settle(i, m) /\ UNCHANGED <<match, trace>>
         ELSE IF m.v = JSNull
         THEN /\ Settle(i, Ok(NotFound(r, Normalize(parseUrl(r.url).v.pathname))))
              /\ UNCHANGED <<match, trace>>
         ELSE /\ match' = [match EXCEPT ![i] = m.v]
              /\ trace' = [trace EXCEPT ![i] =
                   Append(@, Event("createContext",
                     [req |-> r,
                      info |-> [path |-> m.v.v.procedurePath,
                                type |-> m.v.v.procedure.type]]))]
              /\ pc' = [pc EXCEPT ![i] = "awaitContext"]
              /\ UNCHANGED outcome
  /\ UNCHANGED <<genVars, router, routes, onError, ctx>>

\* a catch block that hands no context to the hook
Catch_withoutContext(i, error, hook, context, seen) ==
  /\ trace' = [trace EXCEPT ![i] =
       IF onError
       THEN Append(seen, Event("onError",
              [error |-> error, path |-> match[i].v.procedurePath,
               req |-> req[i], ctx |-> JSUndefined]))
       ELSE seen]
  /\ IF onError /\ hook.t = "throw"
     THEN Settle(i, hook)
     ELSE Settle(i, errorToResponse(error))

\* the catch block: the hook, then errorToResponse
Catch(i, error, hook, context, seen) ==
  /\ trace' = [trace EXCEPT ![i] =
       IF onError
       THEN Append(seen, Event("onError",
              [error |-> error, path |-> match[i].v.procedurePath,
               req |-> req[i], ctx |-> context]))
       ELSE seen]
  /\ IF onError /\ hook.t = "throw"
     THEN Settle(i, hook)
     ELSE Settle(i, errorToResponse(error))

\* a handler that keeps the context in a variable shared by all calls
ContextReturns_sharedCtx(i, c, hook) ==
  /\ pc[i] = "awaitContext"
  /\ ctx' = [j \in DOMAIN ctx |-> c]
  /\ LET input == buildInput(req[i], match[i].v.params)
         seen  == Append(trace[i], Event("createContext.returned", [value |-> c]))
     IN  IF input.t = "throw"
         THEN Catch(i, input.v, hook, c, seen)
         ELSE /\ trace' = [trace EXCEPT ![i] =
                   Append(seen, Event("procedure",
                     [path |-> match[i].v.procedurePath, ctx |-> c,
                      input |-> input.v]))]
              /\ pc' = [pc EXCEPT ![i] = "awaitProcedure"]
              /\ UNCHANGED outcome
  /\ UNCHANGED <<genVars, router, routes, onError, req, match>>

\* createContext resolves with context c: build the input, call the procedure
ContextReturns(i, c, hook) ==
  /\ pc[i] = "awaitContext"
  /\ ctx' = [ctx EXCEPT ![i] = c]
  /\ LET input == buildInput(req[i], match[i].v.params)
         seen  == Append(trace[i], Event("createContext.returned", [value |-> c]))
     IN  IF input.t = "throw"
         THEN Catch(i, input.v, hook, c, seen)
         ELSE /\ trace' = [trace EXCEPT ![i] =
                   Append(seen, Event("procedure",
                     [path |-> match[i].v.procedurePath, ctx |-> c,
                      input |-> input.v]))]
              /\ pc' = [pc EXCEPT ![i] = "awaitProcedure"]
              /\ UNCHANGED outcome
  /\ UNCHANGED <<genVars, router, routes, onError, req, match>>

\* createContext throws, or its promise rejects, with value e
ContextThrows(i, e, hook) ==
  /\ pc[i] = "awaitContext"
  /\ Catch(i, e, hook, ctx[i],
           Append(trace[i], Event("createContext.threw", [value |-> e])))
  /\ UNCHANGED <<genVars, router, routes, onError, req, match, ctx>>

\* a handler that wraps the result in an envelope
ProcedureReturns_enveloped(i, result) ==
  /\ pc[i] = "awaitProcedure"
  /\ trace' = [trace EXCEPT ![i] =
       Append(@, Event("procedure.returned", [value |-> result]))]
  /\ Settle(i, Ok(Response(JSNum(200), JSObj(<<"result">> :> result))))
  /\ UNCHANGED <<genVars, router, routes, onError, req, match, ctx>>

\* the procedure resolves with result
ProcedureReturns(i, result) ==
  /\ pc[i] = "awaitProcedure"
  /\ trace' = [trace EXCEPT ![i] =
       Append(@, Event("procedure.returned", [value |-> result]))]
  /\ Settle(i, Ok(Response(JSNum(200), result)))
  /\ UNCHANGED <<genVars, router, routes, onError, req, match, ctx>>

\* the procedure call fails with value e
ProcedureThrows(i, e, hook) ==
  /\ pc[i] = "awaitProcedure"
  /\ Catch(i, e, hook, ctx[i],
           Append(trace[i], Event("procedure.threw", [value |-> e])))
  /\ UNCHANGED <<genVars, router, routes, onError, req, match, ctx>>

HooksFor == IF onError THEN HookOutcomes ELSE {Ok(JSUndefined)}

Next ==
  \/ \E i \in Slots, r \in Requests : Receive(i, r)
  \/ \E i \in Slots, c \in Contexts, h \in HooksFor : ContextReturns(i, c, h)
  \/ \E i \in Slots, e \in ThrownValues, h \in HooksFor : ContextThrows(i, e, h)
  \/ \E i \in Slots, v \in Results : ProcedureReturns(i, v)
  \/ \E i \in Slots, e \in ThrownValues, h \in HooksFor : ProcedureThrows(i, e, h)

Spec == Init /\ [][Next]_vars

(***************************************************************************)
(* Several calls of one handler in flight.  The calls are numbered in the  *)
(* order of their arrival; between two awaits a call runs alone, and the   *)
(* calls are resumed in any order.                                         *)
(***************************************************************************)
MaxInFlight == 2

InFlightRequests ==
  {Request("GET", <<"/", "u", "/", "4">>, JSUndefined, JSUndefined),
   Request("POST", <<"/", "i">>, JSObj(<<"name">> :> JSStr(<<"x">>)), JSUndefined),
   Request("GET", <<"/", "x">>, JSUndefined, JSUndefined)}

InFlightResults == {JSObj(<<"id">> :> JSNum(1))}

InFlightThrown ==
  {MkError(JSStr(<<"failed">>), JSStr(<<"CONFLICT">>), Cause), JSNull}

InitInFlight ==
  /\ router = RouterA
  /\ routes = buildRouteTable(router)
  /\ onError \in BOOLEAN
  /\ HandlerStart(1..MaxInFlight)
  /\ options = Options(<<"API">>, NoSecurity, FALSE)
  /\ GeneratorIdle
  /\ CarriersIdle

NextInFlight ==
  \/ \E i \in Slots, r \in InFlightRequests :
       (\A j \in 1..(i - 1) : pc[j] /= "idle") /\ Receive(i, r)
  \/ \E i \in Slots, c \in Contexts, h \in HooksFor : ContextReturns(i, c, h)
  \/ \E i \in Slots, e \in InFlightThrown, h \in HooksFor : ContextThrows(i, e, h)
  \/ \E i \in Slots, v \in InFlightResults : ProcedureReturns(i, v)
  \/ \E i \in Slots, e \in InFlightThrown, h \in HooksFor : ProcedureThrows(i, e, h)

SpecInFlight == InitInFlight /\ [][NextInFlight]_vars

\* the promise of createContext settles
FactoryCompletes(i) ==
  \/ \E c \in Contexts, h \in HooksFor : ContextReturns(i, c, h)
  \/ \E e \in InFlightThrown, h \in HooksFor : ContextThrows(i, e, h)

\* the promise of the procedure call settles
ProcedureCompletes(i) ==
  \/ \E v \in InFlightResults : ProcedureReturns(i, v)
  \/ \E e \in InFlightThrown, h \in HooksFor : ProcedureThrows(i, e, h)

\* the calls in flight when the factory and the procedure of every call
\* complete, and every continuation is run by the event loop
SpecCompleting ==
  /\ InitInFlight
  /\ [][NextInFlight]_vars
  /\ \A i \in 1..MaxInFlight :
       WF_vars(FactoryCompletes(i)) /\ WF_vars(ProcedureCompletes(i))

(***************************************************************************)
(* The document generator and the route listing, applied to a router and   *)
(* the options of one call.                                                *)
(***************************************************************************)
handlerVars == <<router, routes, onError, pc, req, match, ctx, outcome, trace>>

InitDoc ==
  /\ router \in DocRouters
  /\ routes = buildRouteTable(router)
  /\ onError = FALSE
  /\ HandlerIdle
  /\ options \in OptionsSet
  /\ GeneratorIdle
  /\ CarriersIdle

Generate ==
  /\ document = <<>>
  /\ document' = <<generateOpenApiDocument(router, options)>>
  /\ UNCHANGED <<handlerVars, options, listed, heap, returned>>

ListRoutes ==
  /\ listed = <<>>
  /\ listed' = <<getOpenApiRoutes(router)>>
  /\ UNCHANGED <<handlerVars, options, document, heap, returned>>

NextDoc == Generate \/ ListRoutes

SpecDoc == InitDoc /\ [][NextDoc]_vars

(***************************************************************************)
(* Schema carriers: withSchema applied, in any order and any number of     *)
(* times, to the functions of the heap.                                    *)
(***************************************************************************)
InitCarriers ==
  /\ router = Router(<<>>, <<>>)
  /\ routes = buildRouteTable(router)
  /\ onError = FALSE
  /\ HandlerIdle
  /\ options = Options(<<"API">>, NoSecurity, FALSE)
  /\ GeneratorIdle
  /\ CarriersIdle

Call(given, schema, result) == [given |-> given, schema |-> schema, result |-> result]

WithSchema(f, schema) ==
  /\ heap' = [heap EXCEPT ![f] = withSchema(heap[f], schema)]
  /\ returned' = <<Call(heap[f], schema, withSchema(heap[f], schema))>>
  /\ UNCHANGED <<handlerVars, options, document, listed>>

NextCarriers == \E f \in FnIds, schema \in SchemaArgs : WithSchema(f, schema)

SpecCarriers == InitCarriers /\ [][NextCarriers]_vars


(***************************************************************************)
(* Vocabulary of the properties.                                           *)
(***************************************************************************)
\* the path component of a URL, before any decoding or normalisation
RawPath(url) ==
  LET queryIndex == IndexOf(url, "?")
  IN  IF queryIndex = 0 THEN url ELSE SubSeq(url, 1, queryIndex - 1)

\* row matches method m (case-insensitively) and path p
RowMatches(row, m, p) ==
  row.method = ToUpperCase(m) /\ RegexExec(row.regex, p).t = "ok"

\* the rows matching the request as the handler sees it
MatchingRows(table, r) ==
  {k \in 1..Len(table) : RowMatches(table[k], r.method, Normalize(RawPath(r.url)))}

Started(i) == pc[i] /= "idle"
Settled(i) == pc[i] \in {"resolved", "rejected"}

EventsOf(i, name) == {k \in 1..Len(trace[i]) : trace[i][k].t = name}

\* the value the catch block of request i received
Failures(i) ==
  {trace[i][k].v.value : k \in EventsOf(i, "createContext.threw")
                                \cup EventsOf(i, "procedure.threw")}

(***************************************************************************)
(* C1: for every request that matches a route and every outcome of the     *)
(* context factory and of the procedure, the handler resolves to a         *)
(* response; its promise never rejects.                                    *)
(***************************************************************************)
C1_HandlerNeverRejects ==
  \A i \in Slots :
    (Started(i) /\ MatchingRows(routes, req[i]) /= {}) => pc[i] /= "rejected"

(***************************************************************************)
(* C2: when no row matches the request's method and path, the handler      *)
(* returns 404 with code NOT_FOUND and a message naming the method and the *)
(* path, and calls neither the context factory, nor a procedure, nor the   *)
(* error callback.                                                         *)
(***************************************************************************)
C2_NotFoundOnMiss ==
  \A i \in Slots :
    (Started(i) /\ MatchingRows(routes, req[i]) = {}) =>
      /\ pc[i] = "resolved"
      /\ outcome[i].v.status = JSNum(404)
      /\ outcome[i].v.body.o[<<"code">>] = JSStr(<<"NOT_FOUND">>)
      /\ outcome[i].v.body.o[<<"message">>] =
           JSStr(<<"No route found for ", req[i].method, " ">>
                 \o Normalize(RawPath(req[i].url)))
      /\ trace[i] = <<>>

(***************************************************************************)
(* C3: the procedure dispatched is that of the lowest-index row whose      *)
(* method equals the request method case-insensitively and whose matcher   *)
(* matches the path; a later matching row is never dispatched.             *)
(***************************************************************************)
FirstMatchingRow(table, r) ==
  CHOOSE k \in MatchingRows(table, r) : \A j \in MatchingRows(table, r) : k <= j

C3_FirstRegisteredWins ==
  \A i \in Slots :
    /\ match[i] /= JSNull =>
         /\ MatchingRows(routes, req[i]) /= {}
         /\ match[i].v.procedurePath =
              routes[FirstMatchingRow(routes, req[i])].procedurePath
         /\ match[i].v.procedure =
              routes[FirstMatchingRow(routes, req[i])].procedure
    /\ \A k \in EventsOf(i, "procedure") :
         trace[i][k].v.path = routes[FirstMatchingRow(routes, req[i])].procedurePath

\* a procedure was called although a later row matches the request too,
\* for a method given in lower case
C3_Witness ==
  \E i \in Slots :
    /\ EventsOf(i, "procedure") /= {}
    /\ Cardinality(MatchingRows(routes, req[i])) >= 2
    /\ req[i].method = "get"

(***************************************************************************)
(* C4: a request path followed by one trailing slash is dispatched like    *)
(* the path itself.                                                        *)
(***************************************************************************)
\* the request r with a slash appended to its path
WithSlash(r) ==
  LET queryIndex == IndexOf(r.url, "?")
  IN  [r EXCEPT !.url =
         IF queryIndex = 0 THEN r.url \o <<"/">>
         ELSE SubSeq(r.url, 1, queryIndex - 1) \o <<"/">>
              \o SubSeq(r.url, queryIndex, Len(r.url))]

NoProcedure == Proc(<<>>, "", NoMeta)

\* what the handler does with request r up to the call of the procedure:
\* the procedure it dispatches to and the input it builds, a miss, or a throw
Dispatch(table, r) ==
  LET m == Route(table, r)
  IN  IF m.t = "throw"
      THEN [kind |-> "throw", path |-> <<>>, procedure |-> NoProcedure,
            input |-> JSUndefined]
      ELSE IF m.v = JSNull
      THEN [kind |-> "miss", path |-> <<>>, procedure |-> NoProcedure,
            input |-> JSUndefined]
      ELSE [kind |-> "call", path |-> m.v.v.procedurePath,
            procedure |-> m.v.v.procedure,
            input |-> buildInput(r, m.v.v.params).v]

IsRootRow(row) == row.regex = <<Lit("/")>>

\* the non-root rows whose method and matcher match the path of r as sent
RowsMatchingRawPath(table, r) ==
  {k \in 1..Len(table) :
     ~IsRootRow(table[k]) /\ RowMatches(table[k], r.method, RawPath(r.url))}

\* C4: for every non-root route and every request path P that matches it, P
\* followed by a slash is dispatched to the same procedure with the same
\* input as P.
C4_SlashDispatchedAlike ==
  \A i \in Slots :
    (Started(i) /\ RowsMatchingRawPath(routes, req[i]) /= {}) =>
      /\ Dispatch(routes, WithSlash(req[i])) = Dispatch(routes, req[i])
      /\ Dispatch(routes, req[i]).kind /= "miss"

\* What the code does guarantee: a non-empty path P that matches a non-root
\* route and does not itself end in a slash is dispatched like P followed by
\* a slash (or fails in the same way), and the root path is matched as sent.
\* A route whose template ends in a slash is out of reach of both.
SlashToleranceOfUnslashedPaths ==
  \A i \in Slots :
    /\ ( /\ Started(i)
         /\ RowsMatchingRawPath(routes, req[i]) /= {}
         /\ RawPath(req[i].url) /= <<>>
         /\ ~EndsWithSlash(RawPath(req[i].url)) ) =>
           /\ Dispatch(routes, WithSlash(req[i])) = Dispatch(routes, req[i])
           /\ Dispatch(routes, req[i]).kind /= "miss"
           /\ match[i] /= JSNull =>
                /\ Dispatch(routes, req[i]).path = match[i].v.procedurePath
                /\ Dispatch(routes, WithSlash(req[i])).path = match[i].v.procedurePath
    /\ (Started(i) /\ RawPath(req[i].url) = <<"/">>) =>
          (match[i] /= JSNull <=>
             \E k \in 1..Len(routes) : RowMatches(routes[k], req[i].method, <<"/">>))

\* a procedure is being called for a path with a parameter that does not end
\* in a slash, and the same path with a slash reaches the same procedure
SlashToleranceReached ==
  \E i \in Slots :
    /\ pc[i] = "awaitProcedure"
    /\ RowsMatchingRawPath(routes, req[i]) /= {}
    /\ ~EndsWithSlash(RawPath(req[i].url))
    /\ DOMAIN match[i].v.params /= {}
    /\ Dispatch(routes, WithSlash(req[i])).kind = "call"

(***************************************************************************)
(* C5: the input of a matched GET request is the key-wise merge of the     *)
(* values parsed from the query string, then the pre-parsed query object,  *)
(* then the path parameters; on a collision the path parameter wins.       *)
(***************************************************************************)
IsGet(r) == ToUpperCase(r.method) = "GET"

OwnProps(x) == IF x.t = "object" THEN x.o ELSE <<>>

ExpectedGetInput(r, params) ==
  LET parsed == parseUrl(r.url).v.query
      pre    == OwnProps(r.query)
  IN  JSObj([k \in DOMAIN parsed \cup DOMAIN pre \cup DOMAIN params |->
               IF k \in DOMAIN params THEN params[k]
               ELSE IF k \in DOMAIN pre THEN pre[k]
               ELSE parsed[k]])

C5_GetInputMerge ==
  \A i \in Slots : \A k \in EventsOf(i, "procedure") :
    IsGet(req[i]) =>
      /\ trace[i][k].v.input = ExpectedGetInput(req[i], match[i].v.params)
      /\ ( /\ req[i].url = <<"/", "u", "/", "4", "?", "v", "=", "t">>
           /\ req[i].query = JSUndefined ) =>
             trace[i][k].v.input =
               JSObj((<<"v">> :> JSStr(<<"t">>)) @@ (<<"i">> :> JSStr(<<"4">>)))

\* a GET procedure call where one key comes from all three sources
C5_Witness ==
  \E i \in Slots : \E k \in EventsOf(i, "procedure") :
    /\ IsGet(req[i])
    /\ \E key \in DOMAIN match[i].v.params :
         /\ key \in DOMAIN OwnProps(req[i].query)
         /\ key \in DOMAIN parseUrl(req[i].url).v.query
         /\ trace[i][k].v.input.o[key] = match[i].v.params[key]
         /\ match[i].v.params[key] /= OwnProps(req[i].query)[key]

(***************************************************************************)
(* C6: the input of a matched non-GET request is the body overlaid with    *)
(* the path parameters when the body is object-shaped; otherwise the path  *)
(* parameters alone when there are any, and the raw body when there are    *)
(* none.  The query string of the URL contributes nothing.                 *)
(***************************************************************************)
ObjectShaped(x) == x.t \in {"object", "array"}

ExpectedBodyInput(r, params) ==
  IF ObjectShaped(r.body)
  THEN JSObj([k \in DOMAIN Spread(r.body) \cup DOMAIN params |->
                IF k \in DOMAIN params THEN params[k] ELSE Spread(r.body)[k]])
  ELSE IF DOMAIN params /= {} THEN JSObj(params)
  ELSE r.body

C7_BodyUnchanged ==
  \A i \in Slots : \A k \in EventsOf(i, "procedure") :
    (~IsGet(req[i]) /\ DOMAIN match[i].v.params = {}) =>
      trace[i][k].v.input = req[i].body

(***************************************************************************)
(* C8: the status of the response to a failure with code C is given by the *)
(* fixed table; any other code, or none, gives 500; never 200.             *)
(***************************************************************************)
\* the code carried by a thrown value, <<>> when it carries none
CodeOf(e) ==
  IF e.t = "object" /\ <<"code">> \in DOMAIN e.o /\ e.o[<<"code">>].t = "string"
  THEN e.o[<<"code">>].s
  ELSE <<>>

TableStatus(c) ==
  CASE c \in {<<"PARSE_ERROR">>, <<"BAD_REQUEST">>} -> 400
    [] c = <<"UNAUTHORIZED">>          -> 401
    [] c = <<"FORBIDDEN">>             -> 403
    [] c = <<"NOT_FOUND">>             -> 404
    [] c = <<"METHOD_NOT_SUPPORTED">>  -> 405
    [] c = <<"TIMEOUT">>               -> 408
    [] c = <<"CONFLICT">>              -> 409
    [] c = <<"PRECONDITION_FAILED">>   -> 412
    [] c = <<"PAYLOAD_TOO_LARGE">>     -> 413
    [] c = <<"UNPROCESSABLE_CONTENT">> -> 422
    [] c = <<"TOO_MANY_REQUESTS">>     -> 429
    [] c = <<"CLIENT_CLOSED_REQUEST">> -> 499
    [] c = <<"NOT_IMPLEMENTED">>       -> 501
    [] OTHER                           -> 500

C8_StatusTable ==
  \A i \in Slots : \A e \in Failures(i) :
    pc[i] = "resolved" =>
      /\ outcome[i].v.status = JSNum(TableStatus(CodeOf(e)))
      /\ outcome[i].v.status /= JSNum(200)

(***************************************************************************)
(* C9: the body of an error response is {message, code, data}.             *)
(***************************************************************************)
MessageOf(e) ==
  IF e.t = "object" /\ <<"message">> \in DOMAIN e.o THEN e.o[<<"message">>]
  ELSE JSUndefined

CauseOf(e) ==
  IF e.t = "object" /\ <<"cause">> \in DOMAIN e.o THEN e.o[<<"cause">>]
  ELSE JSUndefined

ErrorBody(message, code, data) ==
  JSObj([k \in {<<"message">>, <<"code">>, <<"data">>} |->
           IF k = <<"message">> THEN message
           ELSE IF k = <<"code">> THEN code ELSE data])

\* the attached cause, null when it is missing or falsy
DataOf(e) ==
  IF \/ CauseOf(e).t \in {"undefined", "null"}
     \/ CauseOf(e) = JSNum(0)
     \/ CauseOf(e) = JSStr(<<>>)
  THEN JSNull
  ELSE CauseOf(e)

\* C9 as stated: message is the error's message, code is the error's code
\* when it is a recognized one and INTERNAL_SERVER_ERROR when it is missing
\* or unrecognized, data is the attached cause or null.
C9_Original ==
  \A i \in Slots : \A e \in Failures(i) :
    pc[i] = "resolved" =>
      outcome[i].v.body =
        ErrorBody(MessageOf(e),
                  IF CodeOf(e) \in DOMAIN statusMap
                  THEN JSStr(CodeOf(e)) ELSE JSStr(<<"INTERNAL_SERVER_ERROR">>),
                  DataOf(e))

\* C9 (amended): message is the error's message, code is the error's code
\* whenever the error carries a non-empty one, recognized or not, and
\* INTERNAL_SERVER_ERROR only when the code is missing or empty; data is the
\* attached cause, or null when there is none.
C9_ErrorBody ==
  \A i \in Slots : \A e \in Failures(i) :
    pc[i] = "resolved" =>
      outcome[i].v.body =
        ErrorBody(MessageOf(e),
                  IF CodeOf(e) /= <<>>
                  THEN JSStr(CodeOf(e)) ELSE JSStr(<<"INTERNAL_SERVER_ERROR">>),
                  DataOf(e))

\* an error with an unrecognized code and a cause was mapped to a response
C9_Witness ==
  \E i \in Slots : \E e \in Failures(i) :
    /\ pc[i] = "resolved"
    /\ CodeOf(e) /= <<>>
    /\ CodeOf(e) \notin DOMAIN statusMap
    /\ CauseOf(e) = Cause
    /\ outcome[i].v.body.o[<<"data">>] = Cause
    /\ outcome[i].v.status = JSNum(500)

(***************************************************************************)
(* C10: when the context factory and the procedure both succeed the        *)
(* response is 200 with the procedure's return value as its body; the      *)
(* procedure is called at most once per request, never again after a       *)
(* failure, with the input built for that request.                         *)
(***************************************************************************)
C10_SuccessAndSingleCall ==
  \A i \in Slots :
    /\ \A k \in EventsOf(i, "procedure.returned") :
         /\ EventsOf(i, "createContext.returned") /= {}
         /\ pc[i] = "resolved"
         /\ outcome[i].v.status = JSNum(200)
         /\ outcome[i].v.body = trace[i][k].v.value
    /\ Cardinality(EventsOf(i, "procedure")) <= 1
    /\ \A k \in EventsOf(i, "procedure") :
         trace[i][k].v.input =
           IF IsGet(req[i]) THEN ExpectedGetInput(req[i], match[i].v.params)
           ELSE ExpectedBodyInput(req[i], match[i].v.params)
    /\ \A k \in EventsOf(i, "createContext.threw") \cup EventsOf(i, "procedure.threw") :
         \A j \in (k + 1)..Len(trace[i]) : trace[i][j].t = "onError"

\* a request whose factory and procedure both returned has its response
C10_Witness ==
  \E i \in Slots :
    /\ pc[i] = "resolved"
    /\ EventsOf(i, "createContext.returned") /= {}
    /\ \E k \in EventsOf(i, "procedure.returned") :
         trace[i][k].v.value = JSObj(<<"id">> :> JSNum(1))
    /\ outcome[i].v.body = JSObj(<<"id">> :> JSNum(1))

(***************************************************************************)
(* Vocabulary of the properties of the generated document.                 *)
(***************************************************************************)
\* the names between braces in a path template
PlaceholderNames(path) ==
  {SubSeq(path, p + 1, q - 1) : <<p, q>> \in
     {pq \in (1..Len(path)) \X (1..Len(path)) :
        /\ path[pq[1]] = "{" /\ path[pq[2]] = "}" /\ pq[1] + 1 < pq[2]
        /\ \A j \in (pq[1] + 1)..(pq[2] - 1) : path[j] /= "}"}}

\* explicit method, else POST for a mutation, else GET
EffectiveMethod(def) ==
  CASE def.meta.method /= "" -> def.meta.method
    [] def.type = "mutation" -> "POST"
    [] OTHER                 -> "GET"

\* the schema the first input parser of a procedure carries
InputSchemaOf(def) ==
  IF def.inputs /= <<>> THEN getSchemaFromParser(def.inputs[1]) ELSE NoSchema

IsObjectSchema(schema) == schema.type = "object" /\ schema.hasProperties

PropertyNames(schema) == {schema.properties[i].k : i \in 1..Len(schema.properties)}
RequiredNames(schema) == {schema.required[i] : i \in 1..Len(schema.required)}

\* the method key of the document under which a procedure is published
MethodKey(def) == ToLowerCase(EffectiveMethod(def))

\* row i is the last row of the table with its template and method: the
\* operation published under that template and method is its own
OwnsOperation(table, i) ==
  \A j \in (i + 1)..Len(table) :
     ~(/\ table[j].procedure.meta.path = table[i].procedure.meta.path
       /\ MethodKey(table[j].procedure) = MethodKey(table[i].procedure))

HasOperation(doc, def) ==
  /\ OHas(doc.paths, def.meta.path)
  /\ OHas(OGet(doc.paths, def.meta.path), MethodKey(def))

OperationOf(doc, def) == OGet(OGet(doc.paths, def.meta.path), MethodKey(def))

\* the positions of the parameters of an operation in a place, by name
ParametersNamed(op, in, name) ==
  {i \in 1..Len(op.parameters) :
     op.parameters[i].in = in /\ op.parameters[i].name = name}

ParametersIn(op, in) == {i \in 1..Len(op.parameters) : op.parameters[i].in = in}

(***************************************************************************)
(* C11: a GET operation whose input schema is an object schema with        *)
(* properties has exactly one path parameter per placeholder name of the   *)
(* template, each required, exactly one query parameter per input property *)
(* that is not a placeholder name, required iff the property is listed in  *)
(* the schema's required array, and no request body.                       *)
(***************************************************************************)
C11_GetParameters ==
  document /= <<>> =>
    \A i \in 1..Len(routes) :
      LET def    == routes[i].procedure
          schema == InputSchemaOf(def)
          names  == PlaceholderNames(def.meta.path)
      IN  (EffectiveMethod(def) = "GET" /\ IsObjectSchema(schema)
           /\ OwnsOperation(routes, i)) =>
            /\ HasOperation(document[1], def)
            /\ LET op == OperationOf(document[1], def)
               IN  /\ \A name \in names :
                        /\ Cardinality(ParametersNamed(op, "path", name)) = 1
                        /\ \A k \in ParametersNamed(op, "path", name) :
                             op.parameters[k].required
                   /\ \A k \in ParametersIn(op, "path") :
                        op.parameters[k].name \in names
                   /\ \A name \in PropertyNames(schema) \ names :
                        /\ Cardinality(ParametersNamed(op, "query", name)) = 1
                        /\ \A k \in ParametersNamed(op, "query", name) :
                             op.parameters[k].required
                               <=> name \in RequiredNames(schema)
                   /\ \A k \in ParametersIn(op, "query") :
                        op.parameters[k].name \in PropertyNames(schema) \ names
                   /\ \A k \in 1..Len(op.parameters) :
                        op.parameters[k].in \in {"path", "query"}
                   /\ ~op.requestBody.defined

\* the document of the router holding GET /a/{x}/b/{y} with properties
\* {x, y, z}, z required: path parameters x and y, query parameter z
C11_Witness ==
  /\ document /= <<>>
  /\ OHas(document[1].paths, T_a_x_y)
  /\ OHas(OGet(document[1].paths, T_a_x_y), "get")
  /\ LET op == OGet(OGet(document[1].paths, T_a_x_y), "get")
     IN  /\ op.parameters =
              <<Parameter(<<"x">>, "path", TRUE, Leaf("string")),
                Parameter(<<"y">>, "path", TRUE, Leaf("number")),
                Parameter(<<"z">>, "query", TRUE, Leaf("boolean"))>>
         /\ ~op.requestBody.defined

(***************************************************************************)
(* C12: a non-GET operation whose input schema is an object schema with    *)
(* properties has no query parameter; its request body schema has the      *)
(* input properties minus the placeholder names and the input required     *)
(* list minus the placeholder names; when no property remains it has no    *)
(* request body.                                                           *)
(***************************************************************************)
C12_NonGetBody ==
  document /= <<>> =>
    \A i \in 1..Len(routes) :
      LET def    == routes[i].procedure
          schema == InputSchemaOf(def)
          names  == PlaceholderNames(def.meta.path)
      IN  (EffectiveMethod(def) /= "GET" /\ IsObjectSchema(schema)
           /\ OwnsOperation(routes, i)) =>
            /\ HasOperation(document[1], def)
            /\ LET op   == OperationOf(document[1], def)
                   body == op.requestBody
               IN  /\ ParametersIn(op, "query") = {}
                   /\ IF PropertyNames(schema) \ names = {}
                      THEN ~body.defined
                      ELSE /\ body.defined
                           /\ body.schema.type = "object"
                           /\ body.schema.properties =
                                SelectSeq(schema.properties, LAMBDA e : e.k \notin names)
                           /\ body.schema.required =
                                SelectSeq(schema.required, LAMBDA r : r \notin names)

\* PUT /u/{i} with properties {i, n}, required [i, n]: body {n}, required
\* [n]; POST /u/{i} with the only property i: no body
C12_Witness ==
  /\ document /= <<>>
  /\ OHas(document[1].paths, T_u_i)
  /\ OHas(OGet(document[1].paths, T_u_i), "put")
  /\ OHas(OGet(document[1].paths, T_u_i), "post")
  /\ LET put  == OGet(OGet(document[1].paths, T_u_i), "put")
         post == OGet(OGet(document[1].paths, T_u_i), "post")
     IN  /\ put.parameters = <<Parameter(<<"i">>, "path", TRUE, Leaf("string"))>>
         /\ put.requestBody.defined
         /\ put.requestBody.schema.properties = <<Entry(<<"n">>, Leaf("string"))>>
         /\ put.requestBody.schema.required = << <<"n">> >>
         /\ ~post.requestBody.defined

(***************************************************************************)
(* C13: a procedure without OpenAPI metadata is skipped entirely: the      *)
(* document is the one generated from the router without that procedure    *)
(* (no path, no operation, no entry of components.schemas comes from it)   *)
(* and the handler's route table has no row for it.                        *)
(***************************************************************************)
\* the router without its i-th entry
RemoveEntry(r, i) ==
  Router(r.name, SubSeq(r.procedures, 1, i - 1)
                 \o SubSeq(r.procedures, i + 1, Len(r.procedures)))

C13_NoPathNoRow ==
  document /= <<>> =>
    \A i \in 1..Len(router.procedures) :
      LET entry == router.procedures[i]
      IN  (~isRouter(entry) /\ ~entry.meta.openapi) =>
            /\ document[1].paths =
                 generateOpenApiDocument(RemoveEntry(router, i), options).paths
            /\ \A k \in 1..Len(routes) : routes[k].procedurePath /= entry.name

(***************************************************************************)
(* C14: the method of a route row is the explicit metadata method when     *)
(* there is one, else POST for a mutation and GET for any other kind, and  *)
(* the document publishes the procedure under the lowercase of the method  *)
(* of its row: generator and router resolve the same method.               *)
(***************************************************************************)
C14_SameMethod ==
  document /= <<>> =>
    /\ \A i \in 1..Len(routes) :
         LET def == routes[i].procedure
             key == ToLowerCase(routes[i].method)
         IN  /\ routes[i].method = EffectiveMethod(def)
             /\ OHas(document[1].paths, def.meta.path)
             /\ OHas(OGet(document[1].paths, def.meta.path), key)
             /\ OwnsOperation(routes, i) =>
                  OGet(OGet(document[1].paths, def.meta.path), key).operationId
                    = OperationId(routes[i].procedurePath)
    /\ \A p \in 1..Len(document[1].paths) :
         \A m \in 1..Len(document[1].paths[p].v) :
           \E i \in 1..Len(routes) :
             /\ routes[i].procedure.meta.path = document[1].paths[p].k
             /\ ToLowerCase(routes[i].method) = document[1].paths[p].v[m].k

\* a mutation and a subscription without explicit method: rows POST and
\* GET, document keys post and get
C14_Witness ==
  /\ document /= <<>>
  /\ \E i, j \in 1..Len(routes) :
       /\ routes[i].procedure.type = "mutation"
       /\ routes[i].procedure.meta.method = ""
       /\ routes[i].method = "POST"
       /\ OHas(OGet(document[1].paths, routes[i].procedure.meta.path), "post")
       /\ routes[j].procedure.type = "subscription"
       /\ routes[j].procedure.meta.method = ""
       /\ routes[j].method = "GET"
       /\ OHas(OGet(document[1].paths, routes[j].procedure.meta.path), "get")

(***************************************************************************)
(* C15: an operation has a security requirement iff its procedure is       *)
(* marked protect and options.security is set, and it is then exactly      *)
(* options.security; the document has a security field iff                 *)
(* options.security is set.                                                *)
(***************************************************************************)
C15_Security ==
  document /= <<>> =>
    /\ document[1].security.defined <=> options.security.defined
    /\ document[1].security.defined => document[1].security = options.security
    /\ \A i \in 1..Len(routes) :
         LET def == routes[i].procedure
         IN  OwnsOperation(routes, i) =>
               /\ HasOperation(document[1], def)
               /\ LET op == OperationOf(document[1], def)
                  IN  /\ op.security.defined
                           <=> (def.meta.protect /\ options.security.defined)
                      /\ op.security.defined => op.security = options.security

\* options.security is set: a protected operation carries it, an
\* unprotected one does not
C15_Witness ==
  /\ document /= <<>>
  /\ options.security = Security(<< <<"bearerAuth">> >>)
  /\ document[1].security = options.security
  /\ \E i, j \in 1..Len(routes) :
       /\ OwnsOperation(routes, i) /\ OwnsOperation(routes, j)
       /\ routes[i].procedure.meta.protect
       /\ OperationOf(document[1], routes[i].procedure).security = options.security
       /\ ~routes[j].procedure.meta.protect
       /\ ~OperationOf(document[1], routes[j].procedure).security.defined

(***************************************************************************)
(* C16: withSchema returns the callable it was given, which now bears the  *)
(* marker and the schema collection; isTypiaParser holds exactly of the    *)
(* callables whose marker is true; for such a value getSchemaFromParser    *)
(* is the first schema of its collection and getFullSchemaFromParser the   *)
(* collection, and for any other value both are undefined.                 *)
(***************************************************************************)
\* the values the three queries are applied to
Values ==
  OtherValues \cup {heap[f] : f \in FnIds}
  \cup {returned[i].result : i \in 1..Len(returned)}

HasTrueMarker(x) ==
  <<"_isTypiaParser">> \in DOMAIN x.o /\ x.o[<<"_isTypiaParser">>] = JSBool(TRUE)

\* the collection a function was given, undefined when it was given none
CollectionOf(x) ==
  IF <<"_typiaSchema">> \in DOMAIN x.o THEN x.o[<<"_typiaSchema">>] ELSE NoCollection

C16_Carriers ==
  /\ \A i \in 1..Len(returned) :
       LET call == returned[i]
       IN  /\ call.result.t = "function"
           /\ call.result.n = call.given.n
           /\ \E f \in FnIds : heap[f] = call.result
           /\ HasTrueMarker(call.result)
           /\ CollectionOf(call.result) = call.schema
  /\ \A x \in Values :
       LET carrier == x.t = "function" /\ HasTrueMarker(x)
       IN  /\ isTypiaParser(x) <=> carrier
           /\ IF carrier /\ CollectionOf(x).defined
              THEN /\ getFullSchemaFromParser(x) = CollectionOf(x)
                   /\ getSchemaFromParser(x) =
                        IF CollectionOf(x).schemas /= <<>>
                        THEN Head(CollectionOf(x).schemas) ELSE NoSchema
              ELSE /\ getFullSchemaFromParser(x) = NoCollection
                   /\ getSchemaFromParser(x) = NoSchema

\* withSchema has returned a function with a two-schema collection, a
\* second function of the heap is still unmarked
C16_Witness ==
  /\ returned /= <<>>
  /\ returned[1].schema = C_two
  /\ isTypiaParser(returned[1].result)
  /\ getSchemaFromParser(returned[1].result) = S_i
  /\ getFullSchemaFromParser(returned[1].result) = C_two
  /\ \E f \in FnIds : ~isTypiaParser(heap[f])

(***************************************************************************)
(* C17: getOpenApiRoutes returns one entry per row of the route table, in  *)
(* table order; the entry's method and procedurePath are the row's and its *)
(* path is the path template declared for the procedure.                   *)
(***************************************************************************)
C17_RoutesListed ==
  listed /= <<>> =>
    /\ Len(listed[1]) = Len(routes)
    /\ \A i \in 1..Len(routes) :
         /\ listed[1][i].method = routes[i].method
         /\ listed[1][i].procedurePath = routes[i].procedurePath
         /\ listed[1][i].path = routes[i].procedure.meta.path

\* what does hold: one entry per row, in order, with the row's method and
\* procedurePath
C17_MethodAndProcedurePath ==
  listed /= <<>> =>
    /\ Len(listed[1]) = Len(routes)
    /\ \A i \in 1..Len(routes) :
         /\ listed[1][i].method = routes[i].method
         /\ listed[1][i].procedurePath = routes[i].procedurePath

(***************************************************************************)
(* C18: when an error callback is configured and the context factory or    *)
(* the procedure fails, the handler returns the response mapped from that  *)
(* failure, whatever the callback does (even when the callback throws).    *)
(***************************************************************************)
\* a thrown value whose properties can be read by errorToResponse
Mappable(e) == e.t \notin {"undefined", "null"}

C18_HookFailureIsolated ==
  \A i \in Slots : \A e \in Failures(i) :
    (onError /\ Settled(i) /\ Mappable(e)) =>
      /\ pc[i] = "resolved"
      /\ outcome[i] = errorToResponse(e)

\* what does hold: the failed request is either answered with the mapped
\* response or rejected with the value the callback threw
C18_MappedOrHookError ==
  \A i \in Slots : \A e \in Failures(i) :
    (onError /\ Settled(i) /\ Mappable(e)) =>
      \/ pc[i] = "resolved" /\ outcome[i] = errorToResponse(e)
      \/ pc[i] = "rejected" /\ outcome[i] = Threw(HookError)

(***************************************************************************)
(* C19: for every request that matches a route, the context factory is     *)
(* called exactly once, with the request and {path, type} of the matched   *)
(* procedure, before the procedure; the procedure is called only after     *)
(* the factory has returned, with the value it returned as context; when   *)
(* the factory fails the procedure is not called and the failure is mapped *)
(* to a response like a failure of the procedure.                          *)
(***************************************************************************)
\* the calls of request i to the factory and to the procedure are as
\* stated for the row it matches
ContextProtocol(i) ==
  LET row == routes[FirstMatchingRow(routes, req[i])]
  IN  /\ Cardinality(EventsOf(i, "createContext")) = 1
      /\ trace[i][1] =
           Event("createContext",
                 [req  |-> req[i],
                  info |-> [path |-> row.procedurePath, type |-> row.procedure.type]])
      /\ \A k \in EventsOf(i, "procedure") :
           /\ k > 2
           /\ trace[i][k - 1].t = "createContext.returned"
           /\ trace[i][k].v.ctx = trace[i][k - 1].v.value
           /\ trace[i][k].v.path = row.procedurePath
      /\ \A k \in EventsOf(i, "createContext.threw") :
           /\ EventsOf(i, "procedure") = {}
           /\ (pc[i] = "resolved" /\ Mappable(trace[i][k].v.value)) =>
                outcome[i] = errorToResponse(trace[i][k].v.value)

C19_ContextBeforeProcedure ==
  \A i \in Slots :
    (Started(i) /\ MatchingRows(routes, req[i]) /= {}) => ContextProtocol(i)

\* what does hold: the protocol is followed by every request whose path
\* and query string could be decoded
C19_ProtocolOfDecodedRequests ==
  \A i \in Slots : match[i] /= JSNull => ContextProtocol(i)

(***************************************************************************)
(* C20: a configured error callback is called exactly once for each        *)
(* request whose context factory or procedure fails, right after the       *)
(* failure and before the response, with the error, the dotted path of the *)
(* procedure, the request and the context (the factory's result, or        *)
(* undefined when the factory failed); it is never called for a request    *)
(* that succeeds or that matches no route, nor when none is configured.    *)
(***************************************************************************)
\* the positions in the trace of request i where the factory or the
\* procedure failed
FailureEvents(i) ==
  EventsOf(i, "createContext.threw") \cup EventsOf(i, "procedure.threw")

\* the context request i has at position k of its trace
ContextAt(i, k) ==
  IF \E j \in 1..k : trace[i][j].t = "createContext.returned"
  THEN trace[i][CHOOSE j \in 1..k : trace[i][j].t = "createContext.returned"].v.value
  ELSE JSUndefined

C20_ErrorCallback ==
  \A i \in Slots :
    /\ Cardinality(EventsOf(i, "onError")) =
         IF onError /\ FailureEvents(i) /= {} THEN 1 ELSE 0
    /\ Cardinality(FailureEvents(i)) <= 1
    /\ \A k \in EventsOf(i, "onError") :
         /\ k - 1 \in FailureEvents(i)
         /\ k = Len(trace[i])
         /\ trace[i][k].v.error = trace[i][k - 1].v.value
         /\ trace[i][k].v.path = routes[FirstMatchingRow(routes, req[i])].procedurePath
         /\ trace[i][k].v.req = req[i]
         /\ trace[i][k].v.ctx = ContextAt(i, k)
    /\ (pc[i] = "resolved" /\ onError /\ FailureEvents(i) /= {}) =>
         EventsOf(i, "onError") /= {}

\* the callback was called after a failure of the procedure with the
\* context the factory returned, and the error response was returned
C20_Witness ==
  \E i \in Slots :
    /\ pc[i] = "resolved"
    /\ outcome[i].v.status = JSNum(409)
    /\ EventsOf(i, "procedure.threw") /= {}
    /\ \E k \in EventsOf(i, "onError") :
         /\ trace[i][k].v.ctx = JSObj(<<"user">> :> JSStr(<<"alice">>))
         /\ trace[i][k].v.error = MkError(JSStr(<<"failed">>), JSStr(<<"CONFLICT">>), Cause)

(***************************************************************************)
(* Vocabulary of the properties of the compiled matcher.  The templates    *)
(* are read segment by segment; a placeholder fills a whole segment.       *)
(***************************************************************************)
IsPlaceholder(seg) == Len(seg) > 2 /\ seg[1] = "{" /\ seg[Len(seg)] = "}"

\* the indices of the segments of a template that are placeholders
PlaceholderSegments(template) ==
  {j \in 1..Len(Split(template, "/")) : IsPlaceholder(Split(template, "/")[j])}

\* the index of the segment holding the n-th placeholder, left to right
NthPlaceholder(template, n) ==
  CHOOSE j \in PlaceholderSegments(template) :
    Cardinality({x \in PlaceholderSegments(template) : x < j}) = n - 1

\* the placeholder names of a template, left to right
PlaceholderSeq(template) ==
  [n \in 1..Cardinality(PlaceholderSegments(template)) |->
     LET seg == Split(template, "/")[NthPlaceholder(template, n)]
     IN  SubSeq(seg, 2, Len(seg) - 1)]

Groups(regex) == {e \in 1..Len(regex) : regex[e].k = "group"}

(***************************************************************************)
(* C21: the matcher compiled from a template with N placeholders has N     *)
(* capturing groups and the N placeholder names in left-to-right order,    *)
(* and a matched request has the n-th name bound to the (decoded) path     *)
(* segment at the n-th placeholder.                                        *)
(***************************************************************************)
C21_GroupsAndNames ==
  /\ \A k \in 1..Len(routes) :
       LET template == routes[k].procedure.meta.path
       IN  /\ Cardinality(Groups(routes[k].regex)) = Len(PlaceholderSeq(template))
           /\ routes[k].params = PlaceholderSeq(template)
  /\ \A i \in DOMAIN match :
       match[i] /= JSNull =>
         LET template == match[i].v.procedure.meta.path
             names    == PlaceholderSeq(template)
             segments == Split(Normalize(RawPath(req[i].url)), "/")
         IN  /\ DOMAIN match[i].v.params = {names[n] : n \in 1..Len(names)}
             /\ \A n \in 1..Len(names) :
                  match[i].v.params[names[n]] =
                    JSStr(decodeURIComponent(segments[NthPlaceholder(template, n)]).v)

\* a request matched the two-placeholder template /a/{x}/b/{y}
C21_Witness ==
  \E i \in DOMAIN match :
    /\ match[i] /= JSNull
    /\ match[i].v.procedure.meta.path = T_a_x_y
    /\ match[i].v.params = (<<"x">> :> JSStr(<<"1">>)) @@ (<<"y">> :> JSStr(<<"2">>))

(***************************************************************************)
(* C22: a path matches a compiled template iff it is the template's text,  *)
(* character for character, with each placeholder replaced by one or more  *)
(* non-slash characters (no prefix or suffix match); a template without    *)
(* placeholder has no parameter and matches only the path equal to it.     *)
(***************************************************************************)
\* p is the text of the template with its placeholders filled
TemplateMatches(template, p) ==
  LET ts == Split(template, "/")
      ps == Split(p, "/")
  IN  /\ Len(ps) = Len(ts)
      /\ \A j \in 1..Len(ts) :
           IF IsPlaceholder(ts[j]) THEN ps[j] /= <<>> ELSE ps[j] = ts[j]

\* the path of request i as it is given to the matcher
PathMatched(i) == Normalize(RawPath(req[i].url))

C22_ExactMatchOfPlainTemplates ==
  \A i \in DOMAIN pc : \A k \in 1..Len(routes) :
    LET template == routes[k].procedure.meta.path
    IN  (pc[i] /= "idle" /\ \A c \in 1..Len(template) : template[c] /= ".") =>
          /\ RegexExec(routes[k].regex, PathMatched(i)).t = "ok"
               <=> TemplateMatches(template, PathMatched(i))
          /\ PlaceholderSegments(template) = {} =>
               /\ routes[k].params = <<>>
               /\ RegexExec(routes[k].regex, PathMatched(i)).t = "ok"
                    <=> PathMatched(i) = template

(***************************************************************************)
(* C23: collectProcedures maps exactly the dotted paths of the leaves of   *)
(* the procedure tree (ancestor router names and leaf name joined by '.'), *)
(* one entry per leaf, each to its procedure, in depth-first order.        *)
(***************************************************************************)
\* the leaves of a list of tree nodes under a dotted prefix, depth first
RECURSIVE Leaves(_, _)
Leaves(nodes, prefix) ==
  IF nodes = <<>> THEN <<>>
  ELSE LET dotted == IF prefix = <<>> THEN Head(nodes).name
                     ELSE prefix \o <<".">> \o Head(nodes).name
       IN  (IF Head(nodes).router
            THEN Leaves(Head(nodes).procedures, dotted)
            ELSE <<[path |-> dotted, procedure |-> Head(nodes)]>>)
           \o Leaves(Tail(nodes), prefix)

C23_Flattening ==
  document /= <<>> =>
    LET leaves    == Leaves(router.procedures, <<>>)
        flattened == collectProcedures(router)
    IN  /\ Len(flattened) = Len(leaves)
        /\ \A i \in 1..Len(leaves) :
             /\ flattened[i].k = leaves[i].path
             /\ flattened[i].v = leaves[i].procedure
        /\ \A i, j \in 1..Len(flattened) :
             i /= j => flattened[i].k /= flattened[j].k

\* a tree with a router nested in a router has been flattened
C23_Witness ==
  /\ document /= <<>>
  /\ Len(collectProcedures(router)) = 9
  /\ collectProcedures(router)[5].k = <<"deep", ".", "er", ".", "pair">>
  /\ collectProcedures(router)[7].k = <<"postUser">>

(***************************************************************************)
(* C24: the document has an operation at paths[T][lowercase(M)] iff the    *)
(* route table has a row with method M for the template T; the procedures  *)
(* declared on one template share the path item of T; the path keys are    *)
(* in the order in which the templates are first met in the table.         *)
(***************************************************************************)
\* a sequence without the repetitions of its elements
RECURSIVE FirstOccurrences(_)
FirstOccurrences(q) ==
  IF q = <<>> THEN <<>>
  ELSE LET front == FirstOccurrences(SubSeq(q, 1, Len(q) - 1))
       IN  IF \E i \in 1..(Len(q) - 1) : q[i] = q[Len(q)]
           THEN front ELSE Append(front, q[Len(q)])

TemplatesOf(table) == [i \in 1..Len(table) |-> table[i].procedure.meta.path]

C24_DocumentMirrorsTable ==
  document /= <<>> =>
    LET paths == document[1].paths
    IN  /\ \A i \in 1..Len(routes) :
             /\ OHas(paths, routes[i].procedure.meta.path)
             /\ OHas(OGet(paths, routes[i].procedure.meta.path),
                     ToLowerCase(routes[i].method))
        /\ \A p \in 1..Len(paths) : \A m \in 1..Len(paths[p].v) :
             \E i \in 1..Len(routes) :
               /\ routes[i].procedure.meta.path = paths[p].k
               /\ ToLowerCase(routes[i].method) = paths[p].v[m].k
        /\ \A p \in 1..Len(paths) :
             /\ paths[p].v /= <<>>
             /\ \A m, n \in 1..Len(paths[p].v) :
                  m /= n => paths[p].v[m].k /= paths[p].v[n].k
        /\ OKeys(paths) = FirstOccurrences(TemplatesOf(routes))

\* four templates, three methods composed into the path item of /u/{i}
C24_Witness ==
  /\ document /= <<>>
  /\ OKeys(document[1].paths) = <<T_u, T_u_i, T_i, T_root>>
  /\ OKeys(OGet(document[1].paths, T_u_i)) = <<"get", "put", "delete">>
  /\ Len(routes) = 6

(***************************************************************************)
(* C25: components.schemas is the union, by type name, of the component    *)
(* schemas of the collections carried by the inputs and outputs of the     *)
(* flattened procedures, input before output; of two schemas of one name   *)
(* the one visited last is kept; the key is omitted when the union is      *)
(* empty.                                                                  *)
(***************************************************************************)
\* the components.schemas map of the collection a value carries
CarriedComponents(x) ==
  IF x.t = "function" /\ HasTrueMarker(x) /\ CollectionOf(x).defined
  THEN CollectionOf(x).components ELSE <<>>

\* the maps in visiting order: input, then output, of every procedure
Visits(procedures) ==
  [j \in 1..(2 * Len(procedures)) |->
     IF j % 2 = 1
     THEN CarriedComponents(FirstInput(procedures[(j + 1) \div 2].v))
     ELSE CarriedComponents(procedures[j \div 2].v.output)]

C25_ComponentUnion ==
  document /= <<>> =>
    LET visits     == Visits(collectProcedures(router))
        names      == {visits[j][e].k : <<j, e>> \in
                         {<<j, e>> \in (DOMAIN visits) \X (1..3) : e <= Len(visits[j])}}
        components == document[1].components
    IN  /\ components.hasSchemas <=> names /= {}
        /\ {components.schemas[e].k : e \in 1..Len(components.schemas)} = names
        /\ \A d, e \in 1..Len(components.schemas) :
             d /= e => components.schemas[d].k /= components.schemas[e].k
        /\ \A name \in names :
             LET having == {j \in DOMAIN visits : OHas(visits[j], name)}
                 last   == CHOOSE j \in having : \A k \in having : k <= j
             IN  OGet(components.schemas, name) = OGet(visits[last], name)
        /\ \A j \in DOMAIN visits : Len(visits[j]) <= 3

\* User is declared three times: the output of m replaces its input, the
\* output of b, visited last, replaces both
C25_Witness ==
  /\ document /= <<>>
  /\ OKeys(collectProcedures(router)) = << <<"m">>, <<"b">> >>
  /\ document[1].components.hasSchemas
  /\ OKeys(document[1].components.schemas) = << <<"User">>, <<"Id">> >>
  /\ OGet(document[1].components.schemas, <<"User">>) = S_in

(***************************************************************************)
(* C26: after any sequence of withSchema calls (with or without a schema   *)
(* argument, repeated or not) every function has a true marker iff its     *)
(* schema field is populated, and a value lacking either is schema-less    *)
(* for getSchemaFromParser and getFullSchemaFromParser.                    *)
(***************************************************************************)
SchemaLess(x) ==
  getSchemaFromParser(x) = NoSchema /\ getFullSchemaFromParser(x) = NoCollection

C26_MarkerIffSchema ==
  /\ \A f \in FnIds : HasTrueMarker(heap[f]) <=> CollectionOf(heap[f]).defined
  /\ \A x \in Values :
       ~(HasTrueMarker(x) /\ CollectionOf(x).defined) => SchemaLess(x)

\* what does hold: a populated schema field implies the marker, and a
\* function lacking either is schema-less for both getters
C26_SchemaImpliesMarker ==
  /\ \A f \in FnIds : CollectionOf(heap[f]).defined => HasTrueMarker(heap[f])
  /\ \A x \in Values :
       ~(HasTrueMarker(x) /\ CollectionOf(x).defined) => SchemaLess(x)

(***************************************************************************)
(* C27: with any number of requests in flight, resumed in any order, the   *)
(* route table is never modified; the response of a request, the context   *)
(* given to its procedure and the context given to its error callback are  *)
(* those of its own match, factory result and procedure outcome; a step of *)
(* one request, failing or not, changes nothing of another request.        *)
(***************************************************************************)
\* everything the handler holds for request i
SlotState(i) == <<pc[i], req[i], match[i], ctx[i], outcome[i], trace[i]>>

\* the response of request i, from its own match and its own events
OwnResponse(i) ==
  IF match[i] = JSNull
  THEN Ok(NotFound(req[i], Normalize(parseUrl(req[i].url).v.pathname)))
  ELSE IF EventsOf(i, "procedure.returned") /= {}
  THEN Ok(Response(JSNum(200),
          trace[i][CHOOSE k \in EventsOf(i, "procedure.returned") : TRUE].v.value))
  ELSE errorToResponse(CHOOSE e \in Failures(i) : TRUE)

OwnOutcome(i) ==
  /\ match[i] /= JSNull => match[i] = Route(routes, req[i]).v
  /\ \A k \in EventsOf(i, "procedure") :
       /\ trace[i][k].v.ctx = ContextAt(i, k)
       /\ trace[i][k].v.path = match[i].v.procedurePath
       /\ trace[i][k].v.input = buildInput(req[i], match[i].v.params).v
  /\ \A k \in EventsOf(i, "onError") :
       /\ trace[i][k].v.ctx = ContextAt(i, k)
       /\ trace[i][k].v.req = req[i]
       /\ trace[i][k].v.path = match[i].v.procedurePath
       /\ trace[i][k].v.error \in Failures(i)
  /\ Cardinality(Failures(i)) + Cardinality(EventsOf(i, "procedure.returned")) <= 1
  /\ pc[i] = "resolved" => outcome[i] = OwnResponse(i)

C27_Isolation ==
  /\ [](routes = buildRouteTable(router))
  /\ [](\A i \in Slots : OwnOutcome(i))
  /\ [][/\ routes' = routes
        /\ \E i \in Slots : \A j \in Slots \ {i} : SlotState(j)' = SlotState(j)
        /\ \A i \in Slots : Settled(i) => SlotState(i)' = SlotState(i)]_vars

\* two requests were in the procedure at once with different contexts;
\* the first failed and got the mapped error, the second got its result
C27_Witness ==
  /\ Cardinality(Slots) >= 2
  /\ pc[1] = "resolved" /\ pc[2] = "resolved"
  /\ EventsOf(1, "procedure.threw") /= {}
  /\ EventsOf(2, "procedure.returned") /= {}
  /\ Len(trace[1]) >= 3 /\ Len(trace[2]) >= 3
  /\ trace[1][3].t = "procedure" /\ trace[2][3].t = "procedure"
  /\ trace[1][3].v.ctx /= trace[2][3].v.ctx
  /\ outcome[1].v.status = JSNum(409)
  /\ outcome[2].v.status = JSNum(200)

(***************************************************************************)
(* C28: when the context factory and the procedure of a request complete   *)
(* (by returning or by failing), the handler eventually produces exactly   *)
(* one response for it; while either has not completed the handler         *)
(* produces no response for it.                                            *)
(***************************************************************************)
Awaiting(i) == pc[i] \in {"awaitContext", "awaitProcedure"}

\* a matched request is settled only after the call it awaited completed
SettledAfterCompletion(i) ==
  (Settled(i) /\ match[i] /= JSNull) =>
    \/ EventsOf(i, "createContext.threw") /= {}
    \/ /\ EventsOf(i, "createContext.returned") /= {}
       /\ EventsOf(i, "procedure.returned") \cup EventsOf(i, "procedure.threw") /= {}

C28_EventuallyOneResponse ==
  /\ \A i \in 1..MaxInFlight : Awaiting(i) ~> (pc[i] = "resolved")
  /\ [](\A i \in Slots : SettledAfterCompletion(i))
  /\ [][\A i \in Slots : Settled(i) => SlotState(i)' = SlotState(i)]_vars

\* what does hold: the handler's promise eventually settles, once, with a
\* response or with an exception, and not before the awaited call completed
C28_EventuallySettles ==
  /\ \A i \in 1..MaxInFlight : Awaiting(i) ~> Settled(i)
  /\ [](\A i \in Slots : SettledAfterCompletion(i))
  /\ [][\A i \in Slots : Settled(i) => SlotState(i)' = SlotState(i)]_vars

(***************************************************************************)
(* C29: for every method and path template a router exposes, the           *)
(* operation of the document at that path and method is derived from the   *)
(* procedure the handler dispatches a request of that method and template  *)
(* to, also when several procedures declare the same method and template.  *)
(***************************************************************************)
\* a path of the template: every placeholder replaced by the segment 4
RECURSIVE InstanceFrom(_, _, _)
InstanceFrom(template, i, inside) ==
  IF i > Len(template) THEN <<>>
  ELSE CASE template[i] = "{" -> <<"4">> \o InstanceFrom(template, i + 1, TRUE)
         [] template[i] = "}" -> InstanceFrom(template, i + 1, FALSE)
         [] inside            -> InstanceFrom(template, i + 1, TRUE)
         [] OTHER             -> <<template[i]>> \o InstanceFrom(template, i + 1, FALSE)

Instance(template) == InstanceFrom(template, 1, FALSE)

\* the rows declaring the method and template of row i
SameMethodAndTemplate(table, i) ==
  {j \in 1..Len(table) :
     /\ table[j].method = table[i].method
     /\ table[j].procedure.meta.path = table[i].procedure.meta.path}

\* the operation at the method and template of row i is the one of the
\* procedure a request for an instance of the template is dispatched to
DocumentedIsDispatched(i) ==
  LET m == matchRoute(routes, routes[i].method, Instance(routes[i].procedure.meta.path))
  IN  (/\ m.t = "ok"
       /\ m.v /= JSNull
       /\ m.v.v.procedure.meta.path = routes[i].procedure.meta.path) =>
        /\ HasOperation(document[1], routes[i].procedure)
        /\ OperationOf(document[1], routes[i].procedure) =
             Operation(m.v.v.procedurePath, m.v.v.procedure, options.security)

C29_DocumentedIsDispatched ==
  document /= <<>> => \A i \in 1..Len(routes) : DocumentedIsDispatched(i)

\* what does hold: the same for every method and template that one
\* procedure only declares
C29_SingleDeclaration ==
  document /= <<>> =>
    \A i \in 1..Len(routes) :
      SameMethodAndTemplate(routes, i) = {i} => DocumentedIsDispatched(i)

(***************************************************************************)
(* C30: in every generated document the operationId values are pairwise    *)
(* distinct: two operations never have the same operationId.               *)
(***************************************************************************)
\* the operations of a document, as <<path, method>> pairs
OperationsOf(doc) ==
  {<<doc.paths[p].k, doc.paths[p].v[m].k>> :
     <<p, m>> \in {<<p, m>> \in (1..Len(doc.paths)) \X (1..Cardinality(Methods)) :
                     m <= Len(doc.paths[p].v)}}

OperationAt(doc, at) == OGet(OGet(doc.paths, at[1]), at[2])

C30_DistinctOperationIds ==
  document /= <<>> =>
    \A x, y \in OperationsOf(document[1]) :
      x /= y => OperationAt(document[1], x).operationId /=
                OperationAt(document[1], y).operationId

\* what does hold: the operationIds are distinct when no router or
\* procedure name contains an underscore
C30_DistinctWithoutUnderscore ==
  (/\ document /= <<>>
   /\ \A i \in 1..Len(collectProcedures(router)) :
        ~Includes(collectProcedures(router)[i].k, "_")) =>
    \A x, y \in OperationsOf(document[1]) :
      x /= y => OperationAt(document[1], x).operationId /=
                OperationAt(document[1], y).operationId
====
